---- MODULE Spec2Model ----
(***************************************************************************)
(* createReleaseMetadata (src/src/manifest.ts) as a state machine: one     *)
(* action per segment of the async function between two awaits, one per    *)
(* file-system completion and one per signer subprocess event.             *)
(*                                                                         *)
(* Encodings.  An optional value is a sequence of length 0 (undefined) or  *)
(* 1.  A path is the sequence of its segments.  A text (error message,     *)
(* console line, chunk written to a pipe) is the sequence of the pieces    *)
(* its template concatenates.  An exit code is the text String(code).      *)
(* The run is made with verbose logging off (the default).                 *)
(***************************************************************************)
EXTENDS Naturals, Sequences, FiniteSets, TLC

\* Longest artifact list of a run.
MaxFiles == 2

---------------------------------------------------------------------------
\* Optional values and JavaScript's tests on them.

None == <<>>

Some(v) == <<v>>

\* `x ?? d` and a destructuring default: d when x is undefined.
OrElse(o, d) == IF o = None THEN d ELSE o[1]

\* `if (s)` on string | undefined: undefined and "" are falsy.
Truthy(o) == o # None /\ o[1] # ""

Last(s) == s[Len(s)]

Range(s) == {s[i] : i \in DOMAIN s}

\* s is an initial part of t.
IsPrefix(s, t) == Len(s) <= Len(t) /\ \A i \in DOMAIN s : s[i] = t[i]

---------------------------------------------------------------------------
\* Paths.

NotDot(seg) == seg # "."

\* path.basename: the last segment.
Basename(p) == p[Len(p)]

\* path.join(dir, name): segments joined, "." segments normalised away.
PathJoin(dir, name) == SelectSeq(dir \o <<name>>, NotDot)

\* `latest-${platform}.yml` over the platforms of CreateMetadataOptions.
ManifestName(platform) ==
    CASE platform = "mac" -> "latest-mac.yml"
      [] platform = "win" -> "latest-win.yml"
      [] platform = "linux" -> "latest-linux.yml"

\* manifestFile = path.join(outputDir, `latest-${platform}.yml`), with the
\* defaults outputDir = "." and platform = "mac".
ManifestFileOfDefaultPlatform(o) ==
    PathJoin(OrElse(o.outputDir, <<".">>), ManifestName("mac"))

ManifestFile(o) ==
    PathJoin(OrElse(o.outputDir, <<".">>), ManifestName(OrElse(o.platform, "mac")))

---------------------------------------------------------------------------
\* File names as texts of characters, and the two heuristics over them
\* (file-utils.ts 47-61 and 98-113).

Max(S) == CHOOSE m \in S : \A k \in S : k <= m

Min(S) == CHOOSE m \in S : \A k \in S : m <= k

\* \d
Digits == {"0", "1", "2", "3", "4", "5", "6", "7", "8", "9"}

LowerLetters == {"a", "b", "c", "d", "e", "f", "g", "h", "i", "j", "k", "l", "m",
                 "n", "o", "p", "q", "r", "s", "t", "u", "v", "w", "x", "y", "z"}

UpperLetters == {"A", "B", "C", "D", "E", "F", "G", "H", "I", "J", "K", "L", "M",
                 "N", "O", "P", "Q", "R", "S", "T", "U", "V", "W", "X", "Y", "Z"}

\* [a-zA-Z0-9.]
PrereleaseChars == LowerLetters \cup UpperLetters \cup Digits \cup {"."}

\* The one element of a set of one element.  Only({e(x) : x \in {v}}) is
\* e(v), with v computed once whatever the number of its uses in e.
Only(S) == CHOOSE x \in S : TRUE

\* The last index of the longest run of characters of class cls that starts
\* at index p of s (a greedy `[cls]+`), or 0 when there is no such run.
RunEnd(s, p, cls) ==
    Only({IF ends = {} THEN 0 ELSE Max(ends) :
            ends \in {{e \in p..Len(s) : \A k \in p..e : s[k] \in cls}}})

\* filename.replace(/\.[^.]+$/, ""): the last dot and what follows it are
\* removed when at least one character follows it.
nameWithoutExt(filename) ==
    Only({IF dots = {} \/ Max(dots) = Len(filename) THEN filename
          ELSE SubSeq(filename, 1, Max(dots) - 1) :
            dots \in {{i \in DOMAIN filename : filename[i] = "."}}})

\* \d+\.\d+\.\d+ matched at index p: the index of its last character, or 0.
SemverEnd(s, p) ==
    Only({IF a = 0 \/ a + 1 > Len(s) \/ s[a + 1] # "." THEN 0
          ELSE Only({IF b = 0 \/ b + 1 > Len(s) \/ s[b + 1] # "." THEN 0
                     ELSE RunEnd(s, b + 2, Digits) :
                       b \in {RunEnd(s, a + 2, Digits)}}) :
            a \in {RunEnd(s, p, Digits)}})

\* (?:-[a-zA-Z0-9.]+)? after a match that ends at index e: the index where
\* the match with the optional group ends.
PrereleaseEndWithoutGroup(s, e) == e

PrereleaseEnd(s, e) ==
    Only({IF e + 1 <= Len(s) /\ s[e + 1] = "-" /\ r # 0 THEN r ELSE e :
            r \in {RunEnd(s, e + 2, PrereleaseChars)}})

\* The index where `v?` leaves the match that starts at index p: after the
\* "v" when the rest matches there, otherwise p itself.
AfterV(s, p) ==
    IF s[p] = "v" /\ SemverEnd(s, p + 1) # 0 THEN p + 1 ELSE p

\* The indices of s where \d+\.\d+\.\d+ matches, after an optional "v".
MatchStarts(s) ==
    {p \in DOMAIN s : \E q \in {AfterV(s, p)} : SemverEnd(s, q) # 0}

\* The first pattern with its optional group made mandatory.
versionMatchFullRequiringPrerelease(s) ==
    Only({IF starts = {} THEN None
          ELSE Only({Only({Some(SubSeq(s, q, PrereleaseEnd(s, e))) :
                             e \in {SemverEnd(s, q)}}) :
                       q \in {AfterV(s, Min(starts))}}) :
            starts \in {{p \in MatchStarts(s) :
                           \E q \in {AfterV(s, p)} :
                               PrereleaseEnd(s, SemverEnd(s, q)) # SemverEnd(s, q)}}})

\* /v?(\d+\.\d+\.\d+(?:-[a-zA-Z0-9.]+)?)/.exec(s): capture group 1 of the
\* leftmost match, or None.
versionMatchFull(s) ==
    Only({IF starts = {} THEN None
          ELSE Only({Only({Some(SubSeq(s, q, PrereleaseEnd(s, e))) :
                             e \in {SemverEnd(s, q)}}) :
                       q \in {AfterV(s, Min(starts))}}) :
            starts \in {MatchStarts(s)}})

\* /v?(\d+\.\d+\.\d+)/.exec(s): capture group 1 of the leftmost match.
versionMatchSimple(s) ==
    Only({IF starts = {} THEN None
          ELSE Only({Some(SubSeq(s, q, SemverEnd(s, q))) :
                       q \in {AfterV(s, Min(starts))}}) :
            starts \in {MatchStarts(s)}})

\* extractVersionFromFilename: the full pattern, then the bare one.
extractVersionFromFilename(filename) ==
    Only({IF versionMatchFull(s) # None THEN versionMatchFull(s)
          ELSE versionMatchSimple(s) :
            s \in {Only({nameWithoutExt(f) : f \in {filename}})}})

\* The return statement of extractVersionFromFilename that runs: the one
\* of the full pattern (108), or the last one with the match of the bare
\* pattern or with null (112).
ReturnTaken(filename) ==
    Only({IF versionMatchFull(s) # None THEN "full"
          ELSE IF versionMatchSimple(s) # None THEN "simple"
          ELSE "null" :
            s \in {Only({nameWithoutExt(f) : f \in {filename}})}})

\* The `i` flag: a character and its other case are the same.
UpperSeq == <<"A", "B", "C", "D", "E", "F", "G", "H", "I", "J", "K", "L", "M",
              "N", "O", "P", "Q", "R", "S", "T", "U", "V", "W", "X", "Y", "Z">>

LowerSeq == <<"a", "b", "c", "d", "e", "f", "g", "h", "i", "j", "k", "l", "m",
              "n", "o", "p", "q", "r", "s", "t", "u", "v", "w", "x", "y", "z">>

ToLower(c) ==
    IF c \in UpperLetters
    THEN LowerSeq[CHOOSE i \in DOMAIN UpperSeq : UpperSeq[i] = c]
    ELSE c

\* The literal token tok occurs in s at index i, whatever the case.
OccursAt(s, tok, i) ==
    /\ i + Len(tok) - 1 <= Len(s)
    /\ \A k \in DOMAIN tok : ToLower(s[i + k - 1]) = tok[k]

\* /t1|t2|.../i.exec(s) finds a match.
Matches(s, tokens) ==
    \E tok \in tokens : \E i \in DOMAIN s : OccursAt(s, tok, i)

\* The alternatives of the four patterns (file-utils.ts 48-57).
ArmTokens == {<<"a", "r", "m", "6", "4">>,
              <<"a", "a", "r", "c", "h", "6", "4">>}

X64Tokens == {<<"x", "6", "4">>,
              <<"x", "8", "6", "_", "6", "4">>,
              <<"a", "m", "d", "6", "4">>}

X86Tokens == {<<"x", "8", "6">>,
              <<"i", "a", "3", "2">>,
              <<"i", "3", "8", "6">>}

UniversalTokens == {<<"u", "n", "i", "v", "e", "r", "s", "a", "l">>}

\* extractArchFromFilename: the tag of the first pattern that matches.
extractArchX86BeforeX64(filename) ==
    IF Matches(filename, ArmTokens) THEN Some("arm64")
    ELSE IF Matches(filename, X86Tokens) THEN Some("ia32")
    ELSE IF Matches(filename, X64Tokens) THEN Some("x64")
    ELSE IF Matches(filename, UniversalTokens) THEN Some("universal")
    ELSE None

extractArchFromFilename(filename) ==
    IF Matches(filename, ArmTokens) THEN Some("arm64")
    ELSE IF Matches(filename, X64Tokens) THEN Some("x64")
    ELSE IF Matches(filename, X86Tokens) THEN Some("ia32")
    ELSE IF Matches(filename, UniversalTokens) THEN Some("universal")
    ELSE None

\* The characters of the base names of the artifacts of a run.
Chars(name) ==
    CASE name = "MyApp-1.2.3-arm64.zip" ->
            <<"M", "y", "A", "p", "p", "-", "1", ".", "2", ".", "3", "-",
              "a", "r", "m", "6", "4", ".", "z", "i", "p">>
      [] name = "app-x64.dmg" ->
            <<"a", "p", "p", "-", "x", "6", "4", ".", "d", "m", "g">>
      [] name = "setup.exe" ->
            <<"s", "e", "t", "u", "p", ".", "e", "x", "e">>

---------------------------------------------------------------------------
\* The inputs of a run.

ArtifactPaths == {<<"dist", "MyApp-1.2.3-arm64.zip">>, <<"app-x64.dmg">>}

\* An artifact whose name holds neither an architecture nor a version.
PlainArtifact == <<"setup.exe">>

FileLists ==
    UNION {[1..n -> ArtifactPaths \cup {PlainArtifact}] : n \in 0..MaxFiles}

OutputChoices == {[outputDir |-> None, platform |-> None],
                  [outputDir |-> Some(<<"out">>), platform |-> Some("win")]}

\* An explicit appVersion: a version, or the empty string.
AppVersions == {None, Some(<<"2", ".", "0", ".", "0">>), Some(<<>>)}

\* A baseUrl: none, the empty string, or a URL.
BaseUrls == {None, Some(<<>>), Some(<<"https://cdn.example.com/releases">>)}

OptionProduct ==
    {[distributables |-> d, secretKeyPath |-> k, password |-> pw,
      releaseNotes |-> rn, releaseNotesPath |-> rp, autoUpdaterCompat |-> c,
      outputDir |-> oc.outputDir, platform |-> oc.platform,
      appVersion |-> av, baseUrl |-> bu] :
        d \in FileLists,
        k \in {None, Some(""), Some("secret.key")},
        pw \in {None, Some(""), Some("hunter2")},
        rn \in {None, Some(""), Some("Fixes")},
        rp \in {None, Some(<<"NOTES.md">>)},
        c \in {None, Some(FALSE), Some(TRUE)},
        oc \in OutputChoices,
        av \in AppVersions,
        bu \in BaseUrls}

\* The runs explored.  An explicit appVersion is explored for the runs that
\* leave outputDir, platform, autoUpdaterCompat and the notes at their
\* defaults, and an empty releaseNotes string for the runs that also name a
\* notes file and leave the rest at its defaults.  A password, which only
\* signFile reads, is explored for the runs that leave autoUpdaterCompat,
\* appVersion and the notes, which signFile does not read, at their defaults.
\* A baseUrl and the artifact without architecture and version are explored
\* for the runs that leave every other optional field at its default.  The
\* notes, autoUpdaterCompat and outputDir, which meet nowhere in the code,
\* are explored one at a time.
AllDefaults(o) ==
    /\ o.password = None
    /\ o.outputDir = None
    /\ o.autoUpdaterCompat = None
    /\ o.releaseNotes = None
    /\ o.releaseNotesPath = None
    /\ o.appVersion = None

OptionSpace ==
    {o \in OptionProduct :
        /\ o.baseUrl # None => AllDefaults(o)
        /\ (o.autoUpdaterCompat # None \/ o.outputDir # None) =>
              /\ o.releaseNotes = None
              /\ o.releaseNotesPath = None
        /\ o.outputDir # None => o.autoUpdaterCompat = None
        /\ (\E i \in DOMAIN o.distributables : o.distributables[i] = PlainArtifact)
              => AllDefaults(o) /\ o.baseUrl \in {None, Some(<<"https://cdn.example.com/releases">>)}
        /\ o.password # None =>
              /\ o.autoUpdaterCompat = None
              /\ o.releaseNotes = None
              /\ o.releaseNotesPath = None
              /\ o.appVersion = None
        /\ o.appVersion # None =>
              /\ o.outputDir = None
              /\ o.autoUpdaterCompat = None
              /\ o.releaseNotes = None
              /\ o.releaseNotesPath = None
        /\ o.releaseNotes = Some("") =>
              /\ o.outputDir = None
              /\ o.autoUpdaterCompat = None
              /\ o.releaseNotesPath # None}

\* Whether the process has a controlling terminal is nothing the program
\* reads.  Runs without one are explored for the runs that leave outputDir,
\* platform, autoUpdaterCompat, appVersion and the notes at their defaults.
TerminalChoices(o) ==
    IF /\ o.outputDir = None
       /\ o.autoUpdaterCompat = None
       /\ o.releaseNotes = None
       /\ o.releaseNotesPath = None
       /\ o.appVersion = None
    THEN BOOLEAN ELSE {TRUE}

---------------------------------------------------------------------------
\* The command line of the CLI (cli.ts 50-83) and the process it runs in.

\* A command line: the file arguments, --secret-key, --install-minisign,
\* and --password, which the README documents.  The other options are left
\* out of the command line.
ArgvSpace ==
    {[files |-> f, secretKey |-> k, password |-> pw, installMinisign |-> im] :
        f \in UNION {[1..n -> ArtifactPaths] : n \in 0..MaxFiles},
        k \in {None, Some("secret.key")},
        pw \in {None, Some("hunter2")},
        im \in BOOLEAN}

\* The options the program declares (cli.ts 52-83), by their long names.
DeclaredOptions ==
    {"--secret-key", "--output-dir", "--release-notes", "--release-notes-file",
     "--auto-updater-compat", "--base-url", "--app-version",
     "--updater-version", "--platform", "--install-minisign"}

\* The options a command line uses.
UsedOptions(a) ==
    (IF a.secretKey # None THEN {"--secret-key"} ELSE {})
    \cup (IF a.password # None THEN {"--password"} ELSE {})
    \cup (IF a.installMinisign THEN {"--install-minisign"} ELSE {})

\* The object createReleaseMetadata is called with (cli.ts 133-144): the
\* options the command line does not use are undefined, platform has the
\* default "mac" of its declaration, autoUpdaterCompat is Boolean(undefined),
\* and there is no password property.
CliOptions(a) ==
    [distributables |-> a.files,
     secretKeyPath |-> a.secretKey,
     password |-> None,
     releaseNotes |-> None,
     releaseNotesPath |-> None,
     autoUpdaterCompat |-> Some(FALSE),
     outputDir |-> None,
     platform |-> Some("mac"),
     appVersion |-> None,
     baseUrl |-> None]

\* The state of the CLI process: where it stands, whether `minisign -v`
\* succeeds on this machine, what it printed and its exit status.
NotCli == [pc |-> "none", minisign |-> TRUE, out |-> <<>>, exit |-> None]

CliStart(m) == [pc |-> "start", minisign |-> m, out |-> <<>>, exit |-> None]

---------------------------------------------------------------------------
\* Texts.

NoError == <<>>

ErrNoFiles == <<"No distributable files provided">>

ErrNoKey == <<"Secret key path is required">>

\* The message of a rejected node:fs call on path p.
FsError(op, p) == <<"EIO: i/o error, ", op, " ">> \o p

\* Validate inputs: the message thrown, or NoError.
ValidationErrorKeyOnly(o) ==
    IF ~Truthy(o.secretKeyPath) THEN ErrNoKey ELSE NoError

ValidationErrorListOnly(o) ==
    IF Len(o.distributables) = 0 THEN ErrNoFiles ELSE NoError

ValidationErrorKeyFirst(o) ==
    IF ~Truthy(o.secretKeyPath) THEN ErrNoKey
    ELSE IF Len(o.distributables) = 0 THEN ErrNoFiles
    ELSE NoError

ValidationError(o) ==
    IF Len(o.distributables) = 0 THEN ErrNoFiles
    ELSE IF ~Truthy(o.secretKeyPath) THEN ErrNoKey
    ELSE NoError

---------------------------------------------------------------------------
\* The files the run reads: what hashing and stat find for each artifact.

FileInfo(p) ==
    IF Basename(p) = "app-x64.dmg"
    THEN [sha512 |-> "sha512(app-x64.dmg)", size |-> 7]
    ELSE IF Basename(p) = "setup.exe"
    THEN [sha512 |-> "sha512(setup.exe)", size |-> 3]
    ELSE [sha512 |-> "sha512(MyApp-1.2.3-arm64.zip)", size |-> 0]

\* What fs.readFile(releaseNotesPath) can settle with: a text (possibly
\* empty), or None for a rejection.
ReadResults == {Some("From file"), Some(""), None}

\* What the signer's close event carries: an exit code, or null when the
\* process was killed by a signal.
ExitCodes == {"0", "1", "null"}

\* What the signer may have written to its standard error by the time it
\* closes with the given code: nothing, or a diagnostic.  (A signer that
\* exits with 0 is taken to print none.)
Diagnostics(code) ==
    IF code = "0" THEN {<<>>}
    ELSE {<<>>, <<"minisign: wrong password for that key">>}

---------------------------------------------------------------------------
VARIABLES
    options,      \* the CreateMetadataOptions of the run
    hasTerminal,  \* the process has a controlling terminal to inherit
    resolved,     \* Promise.all's array of the values resolved so far
    pc,           \* where createReleaseMetadata stands
    notes,        \* const notes
    inspect,      \* per artifact: the state of its hash and of its stat
    fileEntries,  \* const fileEntries, once Promise.all resolved
    manifest,     \* the manifest object (optional)
    madeDirs,     \* directories fs.mkdir ensured
    written,      \* the fs.writeFile calls that succeeded, in order
    trace,        \* file-system calls and spawns issued, in order
    signIdx,      \* which signFile call is running (0: none yet)
    step,         \* next statement of the running signFile call
    children,     \* every child process spawned, in spawn order
    console,      \* console.log / console.error lines of signFile
    result,       \* the value the promise resolved with (optional)
    error,        \* the message the promise rejected with
    argv,         \* the command line, when the run is one of the CLI (optional)
    cli,          \* the CLI process: where it stands, what it printed, its exit
    filename,     \* the argument of the two file-name heuristics
    archResult,   \* what extractArchFromFilename returned (optional)
    versionResult,\* what extractVersionFromFilename returned (optional)
    versionReturn,\* which return statement of extractVersionFromFilename ran
    content,      \* the bytes of the file being inspected
    readers       \* the getFileInfo calls on that file

\* The state of createReleaseMetadata, of the CLI around it, of the file-name
\* heuristics and of the inspection of one file.
runVars == <<options, hasTerminal, resolved, pc, notes, inspect, fileEntries,
             manifest, madeDirs, written, trace, signIdx, step, children,
             console, result, error>>

cliVars == <<argv, cli>>

nameVars == <<filename, archResult, versionResult, versionReturn>>

fileVars == <<content, readers>>

vars == <<runVars, cliVars, nameVars, fileVars>>

NumFiles == Len(options.distributables)

\* createReleaseMetadata has not started.
RunStart ==
    /\ resolved = [i \in 1..Len(options.distributables) |-> None]
    /\ pc = "init"
    /\ notes = None
    /\ inspect = [i \in 1..Len(options.distributables) |->
                    [sha512 |-> "idle", size |-> "idle"]]
    /\ fileEntries = <<>>
    /\ manifest = None
    /\ madeDirs = {}
    /\ written = <<>>
    /\ trace = <<>>
    /\ signIdx = 0
    /\ step = 0
    /\ children = <<>>
    /\ console = <<>>
    /\ result = None
    /\ error = NoError

\* No call of the file-name heuristics, no file under inspection.
NoNameCall ==
    /\ filename = <<>>
    /\ archResult = None
    /\ versionResult = None
    /\ versionReturn = "none"

NoFileRead == content = <<>> /\ readers = <<>>

\* A run is a call of createReleaseMetadata by a program that imports it,
\* with any options, or a run of the command-line tool, which builds the
\* options from its command line (cli.ts 133-144).
Init ==
    /\ \/ /\ argv = None
          /\ cli = NotCli
          /\ options \in OptionSpace
          /\ hasTerminal \in TerminalChoices(options)
       \/ /\ argv \in {Some(a) : a \in ArgvSpace}
          /\ cli \in {CliStart(m) : m \in BOOLEAN}
          /\ options = CliOptions(argv[1])
          /\ hasTerminal = TRUE
    /\ RunStart
    /\ NoNameCall
    /\ NoFileRead

\* A rejection of createReleaseMetadata with message msg.
Reject(msg) ==
    /\ pc' = "failed"
    /\ error' = msg

---------------------------------------------------------------------------
\* Validation (manifest.ts 127-134).

Validate ==
    /\ pc = "init"
    /\ cli.pc \in {"none", "awaiting"}
    /\ IF ValidationError(options) # NoError
       THEN Reject(ValidationError(options))
       ELSE pc' = "notes" /\ error' = error
    /\ UNCHANGED <<cliVars, nameVars, fileVars, options, hasTerminal, resolved, notes, inspect, fileEntries, manifest, madeDirs,
                   written, trace, signIdx, step, children, console, result>>

---------------------------------------------------------------------------
\* Release notes (manifest.ts 139, file-utils.ts 66-79).

\* `!releaseNotesPath` on a path: undefined and the empty path are falsy.
TruthyPath(o) == o # None /\ o[1] # <<>>

ErrReadNotes(p) ==
    <<"Failed to read release notes from ">> \o p \o <<": ">>
        \o FsError("open", p)

\* releaseNotes ?? (await readReleaseNotes(releaseNotesPath)), up to the
\* point where a file read is pending.
ResolveNotesWhileInspecting ==
    /\ pc = "notes"
    /\ IF options.releaseNotes # None
       THEN notes' = options.releaseNotes /\ pc' = "inspect" /\ trace' = trace
            /\ inspect' = inspect
       ELSE IF ~TruthyPath(options.releaseNotesPath)
       THEN notes' = None /\ pc' = "inspect" /\ trace' = trace
            /\ inspect' = inspect
       ELSE /\ notes' = notes
            /\ pc' = "readingNotes"
            /\ inspect' = [i \in DOMAIN inspect |->
                             [sha512 |-> "pending", size |-> "pending"]]
            /\ trace' = <<[op |-> "createReadStream",
                             path |-> options.distributables[1]],
                            [op |-> "stat", path |-> options.distributables[1]],
                            [op |-> "readFile",
                             path |-> options.releaseNotesPath[1]]>>
    /\ UNCHANGED <<cliVars, nameVars, fileVars, options, hasTerminal, resolved, fileEntries, manifest, madeDirs, written,
                   signIdx, step, children, console, result, error>>

ResolveNotes ==
    /\ pc = "notes"
    /\ IF options.releaseNotes # None
       THEN notes' = options.releaseNotes /\ pc' = "inspect" /\ trace' = trace
       ELSE IF ~TruthyPath(options.releaseNotesPath)
       THEN notes' = None /\ pc' = "inspect" /\ trace' = trace
       ELSE /\ notes' = notes
            /\ pc' = "readingNotes"
            /\ trace' = Append(trace, [op |-> "readFile",
                                       path |-> options.releaseNotesPath[1]])
    /\ UNCHANGED <<cliVars, nameVars, fileVars, options, hasTerminal, resolved, inspect, fileEntries, manifest, madeDirs, written,
                   signIdx, step, children, console, result, error>>

\* fs.readFile settles.
NotesRead(r) ==
    /\ pc = "readingNotes"
    /\ IF r = None
       THEN Reject(ErrReadNotes(options.releaseNotesPath[1])) /\ notes' = notes
       ELSE notes' = r /\ pc' = "inspect" /\ error' = error
    /\ UNCHANGED <<cliVars, nameVars, fileVars, options, hasTerminal, resolved, inspect, fileEntries, manifest, madeDirs, written,
                   trace, signIdx, step, children, console, result>>

---------------------------------------------------------------------------
\* Inspection (manifest.ts 144-170, file-utils.ts 9-42).

\* The calls one getFileInfo(p) issues: createReadStream, then stat.
InspectCalls(p) == <<[op |-> "createReadStream", path |-> p],
                     [op |-> "stat", path |-> p]>>

RECURSIVE AllInspectCalls(_)
AllInspectCalls(files) ==
    IF files = <<>> THEN <<>>
    ELSE InspectCalls(files[1]) \o AllInspectCalls(Tail(files))

\* distributables.map(...) calls getFileInfo for every artifact, in input
\* order, before the first await gives control back.
StartInspections ==
    /\ pc = "inspect"
    /\ inspect' = [i \in DOMAIN inspect |->
                     [sha512 |-> "pending", size |-> "pending"]]
    /\ trace' = trace \o AllInspectCalls(options.distributables)
    /\ pc' = "inspecting"
    /\ UNCHANGED <<cliVars, nameVars, fileVars, options, hasTerminal, resolved, notes, fileEntries, manifest, madeDirs, written,
                   signIdx, step, children, console, result, error>>

\* const url (manifest.ts 159-161): baseUrl (default "") and the base name
\* of the artifact, joined by "/" when baseUrl is truthy.
Url(o, p) ==
    IF OrElse(o.baseUrl, <<>>) # <<>>
    THEN o.baseUrl[1] \o <<"/", Basename(p)>>
    ELSE <<Basename(p)>>

\* The entry the map callback returns for artifact i (155-168): url, sha512,
\* size, and arch when extractArchFromFilename found one in the base name.
FileEntryWithInputPath(i) ==
    [url |-> IF OrElse(options.baseUrl, <<>>) # <<>>
             THEN options.baseUrl[1] \o <<"/">> \o options.distributables[i]
             ELSE options.distributables[i],
     sha512 |-> FileInfo(options.distributables[i]).sha512,
     size |-> FileInfo(options.distributables[i]).size,
     arch |-> extractArchFromFilename(Chars(Basename(options.distributables[i])))]

FileEntryArchUnknown(i) ==
    [url |-> Url(options, options.distributables[i]),
     sha512 |-> FileInfo(options.distributables[i]).sha512,
     size |-> FileInfo(options.distributables[i]).size,
     arch |-> Some(OrElse(extractArchFromFilename(
                              Chars(Basename(options.distributables[i]))),
                          "unknown"))]

FileEntry(i) ==
    [url |-> Url(options, options.distributables[i]),
     sha512 |-> FileInfo(options.distributables[i]).sha512,
     size |-> FileInfo(options.distributables[i]).size,
     arch |-> extractArchFromFilename(Chars(Basename(options.distributables[i])))]

\* getFileInfo(i) has resolved: both its hash and its stat succeeded.
Inspected(ins, i) == ins[i].sha512 = "ok" /\ ins[i].size = "ok"

\* Promise.all resolves once every promise of the map has.
AllInspected(ins) == \A i \in DOMAIN ins : Inspected(ins, i)

\* Promise.all keeps the value of its i-th promise at index i of its result,
\* whenever that promise resolves.
PromiseAllCollectInArrivalOrder(vals, i, v) ==
    [vals EXCEPT ![CHOOSE k \in DOMAIN vals :
                      vals[k] = None /\ \A j \in 1..(k - 1) : vals[j] # None]
                 = Some(v)]

PromiseAllCollect(vals, i, v) == [vals EXCEPT ![i] = Some(v)]

\* One pending operation of getFileInfo(i) settles: the read stream ends or
\* errors (what = "sha512"), or stat settles (what = "size").  The first
\* rejection rejects both Promise.all and with them the run; the operations
\* still pending keep running and settle later, to no effect.  When the last
\* one has succeeded, Promise.all resolves with the array of its values.
InspectSettles(i, what, ok) ==
    /\ pc \in {"inspecting", "failed"}
    /\ cli.pc # "exited"
    /\ inspect[i][what] = "pending"
    /\ inspect' = [inspect EXCEPT ![i][what] = IF ok THEN "ok" ELSE "err"]
    /\ resolved' = IF Inspected(inspect', i)
                   THEN PromiseAllCollect(resolved, i, FileEntry(i))
                   ELSE resolved
    /\ IF pc = "inspecting" /\ ~ok
       THEN /\ Reject(FsError(IF what = "sha512" THEN "open" ELSE "stat",
                              options.distributables[i]))
            /\ fileEntries' = fileEntries
       ELSE IF pc = "inspecting" /\ AllInspected(inspect')
       THEN /\ pc' = "inspected"
            /\ fileEntries' = [j \in DOMAIN resolved' |-> resolved'[j][1]]
            /\ error' = error
       ELSE UNCHANGED <<pc, fileEntries, error>>
    /\ UNCHANGED <<cliVars, nameVars, fileVars, options, hasTerminal, notes, manifest, madeDirs, written, trace,
                   signIdx, step, children, console, result>>

---------------------------------------------------------------------------
\* Manifest construction and persistence (manifest.ts 172-210).

OutputDir(o) == OrElse(o.outputDir, <<".">>)

\* The fallback of the version (manifest.ts 176).
FallbackVersion == <<"1", ".", "0", ".", "0">>

\* version = appVersion ?? extractVersionFromFilename(
\*               path.basename(distributables[0])) ?? "1.0.0"
VersionOfLastArtifact(o) ==
    OrElse(o.appVersion,
           OrElse(extractVersionFromFilename(Chars(Basename(Last(o.distributables)))),
                  FallbackVersion))

Version(o) ==
    OrElse(o.appVersion,
           OrElse(extractVersionFromFilename(Chars(Basename(o.distributables[1]))),
                  FallbackVersion))

\* The top-level path, sha512 and size of the manifest: set under
\* autoUpdaterCompat (default false) from the name of artifact `first` and
\* from its entry, otherwise not set.
CompatFields(o, entries, dflt, first) ==
    IF OrElse(o.autoUpdaterCompat, dflt) /\ Len(entries) > 0
    THEN [path |-> Some(Basename(o.distributables[first])),
          sha512 |-> Some(entries[first].sha512),
          size |-> Some(entries[first].size)]
    ELSE [path |-> None, sha512 |-> None, size |-> None]

\* The manifest object: the version, the entries, the notes when truthy,
\* and under autoUpdaterCompat the top-level path, sha512 and size, set from
\* the first artifact's name and the first entry.  A field that is not set
\* is None.
BuildManifestCompatFromLast(o, entries, n) ==
    [version |-> Version(o),
     files |-> entries,
     releaseNotes |-> IF Truthy(n) THEN n ELSE None,
     path |-> CompatFields(o, entries, FALSE, Len(entries)).path,
     sha512 |-> CompatFields(o, entries, FALSE, Len(entries)).sha512,
     size |-> CompatFields(o, entries, FALSE, Len(entries)).size]

BuildManifestCompatByDefault(o, entries, n) ==
    [version |-> Version(o),
     files |-> entries,
     releaseNotes |-> IF Truthy(n) THEN n ELSE None,
     path |-> CompatFields(o, entries, TRUE, 1).path,
     sha512 |-> CompatFields(o, entries, TRUE, 1).sha512,
     size |-> CompatFields(o, entries, TRUE, 1).size]

BuildManifestKeepingEmptyNotes(o, entries, n) ==
    [version |-> Version(o),
     files |-> entries,
     releaseNotes |-> n,
     path |-> CompatFields(o, entries, FALSE, 1).path,
     sha512 |-> CompatFields(o, entries, FALSE, 1).sha512,
     size |-> CompatFields(o, entries, FALSE, 1).size]

BuildManifest(o, entries, n) ==
    [version |-> Version(o),
     files |-> entries,
     releaseNotes |-> IF Truthy(n) THEN n ELSE None,
     path |-> CompatFields(o, entries, FALSE, 1).path,
     sha512 |-> CompatFields(o, entries, FALSE, 1).sha512,
     size |-> CompatFields(o, entries, FALSE, 1).size]

\* From the resolution of Promise.all to the await of fs.mkdir.
Build ==
    /\ pc = "inspected"
    /\ manifest' = Some(BuildManifest(options, fileEntries, notes))
    /\ trace' = Append(trace, [op |-> "mkdir", path |-> OutputDir(options)])
    /\ pc' = "mkdir"
    /\ UNCHANGED <<cliVars, nameVars, fileVars, options, hasTerminal, resolved, notes, inspect, fileEntries, madeDirs, written,
                   signIdx, step, children, console, result, error>>

\* fs.mkdir settles; on success fs.writeFile is called.
MkdirSettlesWithoutAwait(ok) ==
    /\ pc = "mkdir"
    /\ madeDirs' = IF ok THEN madeDirs \cup {OutputDir(options)} ELSE madeDirs
    /\ trace' = Append(trace, [op |-> "writeFile",
                               path |-> ManifestFile(options)])
    /\ pc' = "writing"
    /\ UNCHANGED <<cliVars, nameVars, fileVars, options, hasTerminal, resolved, notes, inspect,
                   fileEntries, manifest, written, signIdx, step, children,
                   console, result, error>>

MkdirSettles(ok) ==
    /\ pc = "mkdir"
    /\ IF ok
       THEN /\ madeDirs' = madeDirs \cup {OutputDir(options)}
            /\ trace' = Append(trace, [op |-> "writeFile",
                                       path |-> ManifestFile(options)])
            /\ pc' = "writing"
            /\ error' = error
       ELSE /\ Reject(FsError("mkdir", OutputDir(options)))
            /\ UNCHANGED <<madeDirs, trace>>
    /\ UNCHANGED <<cliVars, nameVars, fileVars, options, hasTerminal, resolved, notes, inspect, fileEntries, manifest, written,
                   signIdx, step, children, console, result>>

\* fs.writeFile settles; on success signFile(manifestFile, ...) is entered.
WriteSettlesIgnoringFailure(ok) ==
    /\ pc = "writing"
    /\ written' = IF ok
                  THEN Append(written, [path |-> ManifestFile(options),
                                        content |-> manifest[1]])
                  ELSE written
    /\ pc' = "signing"
    /\ signIdx' = 1
    /\ step' = 1
    /\ UNCHANGED <<cliVars, nameVars, fileVars, options, hasTerminal, resolved, notes, inspect,
                   fileEntries, manifest, madeDirs, trace, children, console,
                   result, error>>

WriteSettles(ok) ==
    /\ pc = "writing"
    /\ IF ok
       THEN /\ written' = Append(written, [path |-> ManifestFile(options),
                                           content |-> manifest[1]])
            /\ pc' = "signing"
            /\ signIdx' = 1
            /\ step' = 1
            /\ error' = error
       ELSE /\ Reject(FsError("open", ManifestFile(options)))
            /\ UNCHANGED <<written, signIdx, step>>
    /\ UNCHANGED <<cliVars, nameVars, fileVars, options, hasTerminal, resolved, notes, inspect, fileEntries, manifest, madeDirs,
                   trace, children, console, result>>

---------------------------------------------------------------------------
\* signFile (manifest.ts 20-95) and the signing sequence (212-231).

\* The branch `if (password)` takes.
ModeOfDefinedPassword(password) ==
    IF password # None THEN "explicit" ELSE "interactive"

Mode(password) == IF Truthy(password) THEN "explicit" ELSE "interactive"

\* The stdio option of spawn; "inherit" alone stands for all three streams.
StdioAlwaysPipe(mode) == <<"pipe", "inherit", "inherit">>

StdioFor(mode) ==
    IF mode = "explicit" THEN <<"pipe", "inherit", "inherit">>
    ELSE <<"inherit", "inherit", "inherit">>

\* The statements of signFile up to its await, in program order: spawn,
\* stdin.write, stdin.end, and the promise whose executor registers the
\* close listener.
SignStepsNoEnd(mode) ==
    IF mode = "explicit" THEN <<"spawn", "write", "listen">>
    ELSE <<"spawn", "listen">>

SignSteps(mode) ==
    IF mode = "explicit" THEN <<"spawn", "write", "end", "listen">>
    ELSE <<"spawn", "listen">>

\* The files signFile is called on, in call order: the manifest (219), then
\* the loop over distributables.entries() (223-228).
SignTargetsArtifactsFirst(o) == o.distributables \o <<ManifestFile(o)>>

SignTargetsSkipLast(o) ==
    <<ManifestFile(o)>> \o SubSeq(o.distributables, 1, Len(o.distributables) - 1)

SignTargets(o) == <<ManifestFile(o)>> \o o.distributables

\* The arguments of the idx-th signFile call.
SignFileArgsManifestOnlyPassword(o, idx) ==
    [filePath |-> SignTargets(o)[idx],
     secretKeyPath |-> o.secretKeyPath[1],
     password |-> IF idx = 1 THEN o.password ELSE None]

SignFileArgs(o, idx) ==
    [filePath |-> SignTargets(o)[idx],
     secretKeyPath |-> o.secretKeyPath[1],
     password |-> o.password]

\* The close listener (46-54, 71-81): what it does to the promise.
CloseOutcomeAlwaysResolve(code) == "resolved"

CloseOutcomeFalsyCode(code) ==
    IF code \in {"0", "null"} THEN "resolved" ELSE "rejected"

CloseOutcome(code) == IF code = "0" THEN "resolved" ELSE "rejected"

\* The message the close listener rejects with: String(code) in the
\* explicit branch, String(code ?? "unknown") in the interactive one.
ExitMessage(mode, code) ==
    <<"minisign process exited with code ",
      IF mode = "interactive" /\ code = "null" THEN "unknown" ELSE code>>

\* `await new Promise(...)` gives control back once the promise is settled.
AwaitedWithoutWaiting(child) == child.promise # "none"

AwaitedOrTimedOut(child) == child.promise \in {"pending", "resolved", "rejected"}

Awaited(child) == child.promise \in {"resolved", "rejected"}

CurrentArgs == SignFileArgs(options, signIdx)

CurrentMode == Mode(CurrentArgs.password)

\* signFile's next statement is of the given kind.
AtStep(kind) ==
    /\ pc = "signing"
    /\ step \in DOMAIN SignSteps(CurrentMode)
    /\ SignSteps(CurrentMode)[step] = kind

LogLine(text) == [stream |-> "log", text |-> text]

ErrorLine(text) == [stream |-> "error", text |-> text]

\* Entry of signFile up to and including spawn("minisign", [...], {stdio}).
SignSpawn ==
    /\ AtStep("spawn")
    /\ console' = console \o
         <<LogLine(<<"Signing file: ", Basename(CurrentArgs.filePath)>>),
           LogLine(IF CurrentMode = "explicit"
                   THEN <<"Using provided password for key decryption">>
                   ELSE <<"You may need to enter password in the terminal if prompted">>)>>
    /\ children' = Append(children,
         [idx |-> signIdx,
          command |-> "minisign",
          flags |-> <<"-S", "-s", "-m">>,
          key |-> CurrentArgs.secretKeyPath,
          target |-> CurrentArgs.filePath,
          mode |-> CurrentMode,
          stdio |-> StdioFor(CurrentMode),
          stdin |-> <<>>,
          stdinEnded |-> FALSE,
          stderr |-> <<>>,
          log |-> <<"spawn">>,
          promise |-> "none",
          code |-> "running",
          reason |-> NoError])
    /\ trace' = Append(trace, [op |-> "spawn", path |-> CurrentArgs.filePath])
    /\ step' = step + 1
    /\ UNCHANGED <<cliVars, nameVars, fileVars, options, hasTerminal, resolved, pc, notes, inspect, fileEntries, manifest,
                   madeDirs, written, signIdx, result, error>>

\* minisign.stdin.write(password + "\n")
SignStdinWrite ==
    /\ AtStep("write")
    /\ children' = [children EXCEPT
         ![Len(children)].stdin = Append(@, <<CurrentArgs.password[1], "\n">>),
         ![Len(children)].log = Append(@, "write")]
    /\ step' = step + 1
    /\ UNCHANGED <<cliVars, nameVars, fileVars, options, hasTerminal, resolved, pc, notes, inspect, fileEntries, manifest,
                   madeDirs, written, trace, signIdx, console, result, error>>

\* minisign.stdin.end()
SignStdinEnd ==
    /\ AtStep("end")
    /\ children' = [children EXCEPT
         ![Len(children)].stdinEnded = TRUE,
         ![Len(children)].log = Append(@, "end")]
    /\ step' = step + 1
    /\ UNCHANGED <<cliVars, nameVars, fileVars, options, hasTerminal, resolved, pc, notes, inspect, fileEntries, manifest,
                   madeDirs, written, trace, signIdx, console, result, error>>

\* new Promise(...): minisign.on("close", ...) is registered and signFile
\* awaits the promise.
SignListen ==
    /\ AtStep("listen")
    /\ children' = [children EXCEPT
         ![Len(children)].promise = "pending",
         ![Len(children)].log = Append(@, "listen")]
    /\ step' = step + 1
    /\ UNCHANGED <<cliVars, nameVars, fileVars, options, hasTerminal, resolved, pc, notes, inspect, fileEntries, manifest,
                   madeDirs, written, trace, signIdx, console, result, error>>

\* The close event of child j is delivered to its listener.  Events are
\* delivered between turns of the event loop, so never before the listener
\* of the same turn is registered.  By then the child has written diag to
\* its standard error, which in both modes is the inherited one.
SignerClose(j, code, diag) ==
    /\ pc # "crashed"
    /\ children[j].promise = "pending"
    /\ children' = [children EXCEPT
         ![j].code = code,
         ![j].stderr = diag,
         ![j].promise = CloseOutcome(code),
         ![j].reason = IF CloseOutcome(code) = "rejected"
                       THEN ExitMessage(children[j].mode, code) ELSE NoError,
         ![j].log = Append(@, "close")]
    /\ UNCHANGED <<cliVars, nameVars, fileVars, options, hasTerminal, resolved, pc, notes, inspect, fileEntries, manifest,
                   madeDirs, written, trace, signIdx, step, console, result,
                   error>>

\* The signer could not be started: the child emits "error", for which
\* signFile registers no listener, so the event is thrown as an uncaught
\* exception and no close event follows.
SignerSpawnError(j) ==
    /\ pc # "crashed"
    /\ children[j].promise = "pending"
    /\ children' = [children EXCEPT
         ![j].code = "ENOENT",
         ![j].log = Append(@, "error")]
    /\ pc' = "crashed"
    /\ UNCHANGED <<cliVars, nameVars, fileVars, options, hasTerminal, resolved, notes, inspect, fileEntries, manifest, madeDirs,
                   written, trace, signIdx, step, console, result, error>>

ErrSign(reason) == <<"Failed to sign file with minisign: ">> \o reason

\* signFile resumes after its await: the catch block (86-94) on a
\* rejection; otherwise it returns and the caller goes on to the next file,
\* or returns manifestFile after the last.
SignFileReturnWithCleanup ==
    /\ pc = "signing"
    /\ step = Len(SignSteps(CurrentMode)) + 1
    /\ Awaited(Last(children))
    /\ IF Last(children).promise = "rejected"
       THEN /\ console' = console \o
                 <<ErrorLine(<<"Error signing file: ",
                               Basename(CurrentArgs.filePath)>>),
                   ErrorLine(Last(children).reason)>>
            /\ Reject(ErrSign(Last(children).reason))
            /\ written' = <<>>
            /\ UNCHANGED <<signIdx, step, result>>
       ELSE /\ console' = Append(console,
                 LogLine(<<"Successfully signed: ",
                           Basename(CurrentArgs.filePath)>>))
            /\ error' = error
            /\ written' = written
            /\ IF signIdx < Len(SignTargets(options))
               THEN /\ signIdx' = signIdx + 1
                    /\ step' = 1
                    /\ UNCHANGED <<pc, result>>
               ELSE /\ pc' = "complete"
                    /\ result' = Some(ManifestFile(options))
                    /\ UNCHANGED <<signIdx, step>>
    /\ UNCHANGED <<cliVars, nameVars, fileVars, options, hasTerminal, resolved, notes, inspect,
                   fileEntries, manifest, madeDirs, trace, children>>

SignFileReturnSavingAgain ==
    /\ pc = "signing"
    /\ step = Len(SignSteps(CurrentMode)) + 1
    /\ Awaited(Last(children))
    /\ IF Last(children).promise = "rejected"
       THEN /\ console' = console \o
                 <<ErrorLine(<<"Error signing file: ",
                               Basename(CurrentArgs.filePath)>>),
                   ErrorLine(Last(children).reason)>>
            /\ Reject(ErrSign(Last(children).reason))
            /\ UNCHANGED <<signIdx, step, result, written, trace>>
       ELSE /\ console' = Append(console,
                 LogLine(<<"Successfully signed: ",
                           Basename(CurrentArgs.filePath)>>))
            /\ error' = error
            /\ written' = Append(written, [path |-> ManifestFile(options),
                                           content |-> manifest[1]])
            /\ trace' = Append(trace, [op |-> "writeFile",
                                       path |-> ManifestFile(options)])
            /\ IF signIdx < Len(SignTargets(options))
               THEN /\ signIdx' = signIdx + 1
                    /\ step' = 1
                    /\ UNCHANGED <<pc, result>>
               ELSE /\ pc' = "complete"
                    /\ result' = Some(ManifestFile(options))
                    /\ UNCHANGED <<signIdx, step>>
    /\ UNCHANGED <<cliVars, nameVars, fileVars, options, hasTerminal, resolved, notes, inspect, fileEntries, manifest,
                   madeDirs, children>>

SignFileReturnRetrying ==
    /\ pc = "signing"
    /\ step = Len(SignSteps(CurrentMode)) + 1
    /\ Awaited(Last(children))
    /\ IF Last(children).promise = "rejected"
       THEN /\ console' = console \o
                 <<ErrorLine(<<"Error signing file: ",
                               Basename(CurrentArgs.filePath)>>),
                   ErrorLine(Last(children).reason)>>
            /\ step' = 1
            /\ UNCHANGED <<pc, signIdx, result, error>>
       ELSE /\ console' = Append(console,
                 LogLine(<<"Successfully signed: ",
                           Basename(CurrentArgs.filePath)>>))
            /\ error' = error
            /\ IF signIdx < Len(SignTargets(options))
               THEN /\ signIdx' = signIdx + 1
                    /\ step' = 1
                    /\ UNCHANGED <<pc, result>>
               ELSE /\ pc' = "complete"
                    /\ result' = Some(ManifestFile(options))
                    /\ UNCHANGED <<signIdx, step>>
    /\ UNCHANGED <<cliVars, nameVars, fileVars, options, hasTerminal, resolved, notes, inspect, fileEntries, manifest, madeDirs,
                   written, trace, children>>

SignFileReturn ==
    /\ pc = "signing"
    /\ step = Len(SignSteps(CurrentMode)) + 1
    /\ Awaited(Last(children))
    /\ IF Last(children).promise = "rejected"
       THEN /\ console' = console \o
                 <<ErrorLine(<<"Error signing file: ",
                               Basename(CurrentArgs.filePath)>>),
                   ErrorLine(Last(children).reason)>>
            /\ Reject(ErrSign(Last(children).reason))
            /\ UNCHANGED <<signIdx, step, result>>
       ELSE /\ console' = Append(console,
                 LogLine(<<"Successfully signed: ",
                           Basename(CurrentArgs.filePath)>>))
            /\ error' = error
            /\ IF signIdx < Len(SignTargets(options))
               THEN /\ signIdx' = signIdx + 1
                    /\ step' = 1
                    /\ UNCHANGED <<pc, result>>
               ELSE /\ pc' = "complete"
                    /\ result' = Some(ManifestFile(options))
                    /\ UNCHANGED <<signIdx, step>>
    /\ UNCHANGED <<cliVars, nameVars, fileVars, options, hasTerminal, resolved, notes, inspect, fileEntries, manifest, madeDirs,
                   written, trace, children>>

---------------------------------------------------------------------------
\* The command-line tool (cli.ts 84-160).

\* What the exit of the process leaves: its status and what it printed.
CliExit(status, lines) ==
    cli' = [cli EXCEPT !.pc = "exited", !.exit = Some(status),
                       !.out = cli.out \o lines]

\* console.log of the installation instructions (cli.ts 91-101).
InstallInstructions ==
    <<LogLine(<<"Installation instructions for minisign:">>),
      LogLine(<<"\nOn macOS:">>),
      LogLine(<<"  brew install minisign">>),
      LogLine(<<"\nOn Ubuntu/Debian:">>),
      LogLine(<<"  apt install minisign">>),
      LogLine(<<"\nOn Windows:">>),
      LogLine(<<"  Download from https://jedisct1.github.io/minisign/">>),
      LogLine(<<"\nFor more information and other platforms:">>),
      LogLine(<<"  https://jedisct1.github.io/minisign/">>),
      LogLine(<<"\nTo generate keys, use:">>),
      LogLine(<<"  minisign -G">>)>>

\* console.error when minisign is missing (cli.ts 107-113).
MinisignRequired ==
    <<ErrorLine(<<"Error: The minisign command is required but not installed or not in your PATH.">>),
      ErrorLine(<<"Please install minisign first:">>),
      ErrorLine(<<"  Run: npx @todesktop/create-release-metadata --install-minisign">>)>>

\* The lines printed after createReleaseMetadata resolved (cli.ts 146-151).
SuccessLines(res, files) ==
    <<LogLine(<<"Successfully created metadata at ">> \o res),
      LogLine(<<"Created signature files:">>),
      LogLine(<<" - ">> \o res \o <<".minisig">>)>>
    \o [i \in DOMAIN files |-> LogLine(<<" - ">> \o files[i] \o <<".minisig">>)]

\* program.help() prints the usage and ends the process itself, with the
\* status commander chooses; the process.exit(1) written after it is not
\* reached.
HelpExitCodes == {"0", "1"}

\* program.parse() (cli.ts 160): commander refuses a command line that uses
\* an option the program does not declare, and otherwise calls the action.
CliParse ==
    /\ cli.pc = "start"
    /\ IF UsedOptions(argv[1]) \subseteq DeclaredOptions
       THEN cli' = [cli EXCEPT !.pc = "action"]
       ELSE CliExit("1", <<ErrorLine(<<"error: unknown option '",
                             CHOOSE o \in UsedOptions(argv[1]) \ DeclaredOptions : TRUE,
                             "'">>)>>)
    /\ UNCHANGED <<runVars, argv, nameVars, fileVars>>

\* The action up to its await (cli.ts 85-144): the instructions, the check
\* for minisign, the two checks of the command line, and the call of
\* createReleaseMetadata.
CliActionRequiringMinisign(helpExit) ==
    /\ cli.pc = "action"
    /\ IF ~cli.minisign
       THEN CliExit("1", MinisignRequired)
       ELSE IF argv[1].installMinisign
       THEN CliExit("0", InstallInstructions)
       ELSE IF Len(argv[1].files) = 0
       THEN CliExit(helpExit,
                    <<ErrorLine(<<"Error: No distributable files specified">>),
                      LogLine(<<"Usage: create-release-metadata [options] [files...]">>)>>)
       ELSE IF ~Truthy(argv[1].secretKey)
       THEN CliExit(helpExit,
                    <<ErrorLine(<<"Error: --secret-key is required">>),
                      LogLine(<<"Usage: create-release-metadata [options] [files...]">>)>>)
       ELSE cli' = [cli EXCEPT !.pc = "awaiting"]
    /\ UNCHANGED <<runVars, argv, nameVars, fileVars>>

CliAction(helpExit) ==
    /\ cli.pc = "action"
    /\ IF argv[1].installMinisign
       THEN CliExit("0", InstallInstructions)
       ELSE IF ~cli.minisign
       THEN CliExit("1", MinisignRequired)
       ELSE IF Len(argv[1].files) = 0
       THEN CliExit(helpExit,
                    <<ErrorLine(<<"Error: No distributable files specified">>),
                      LogLine(<<"Usage: create-release-metadata [options] [files...]">>)>>)
       ELSE IF ~Truthy(argv[1].secretKey)
       THEN CliExit(helpExit,
                    <<ErrorLine(<<"Error: --secret-key is required">>),
                      LogLine(<<"Usage: create-release-metadata [options] [files...]">>)>>)
       ELSE cli' = [cli EXCEPT !.pc = "awaiting"]
    /\ UNCHANGED <<runVars, argv, nameVars, fileVars>>

\* createReleaseMetadata resolved: the success lines, and the process ends
\* when the action has returned.
CliResolved ==
    /\ cli.pc = "awaiting"
    /\ pc = "complete"
    /\ CliExit("0", SuccessLines(result[1], argv[1].files))
    /\ UNCHANGED <<runVars, argv, nameVars, fileVars>>

\* createReleaseMetadata rejected: the catch block (cli.ts 152-156).
CliRejectedReportingSuccess ==
    /\ cli.pc = "awaiting"
    /\ pc = "failed"
    /\ CliExit("0", SuccessLines(ManifestFile(options), argv[1].files))
    /\ UNCHANGED <<runVars, argv, nameVars, fileVars>>

CliRejected ==
    /\ cli.pc = "awaiting"
    /\ pc = "failed"
    /\ CliExit("1", <<ErrorLine(<<"Error:", " ">> \o error)>>)
    /\ UNCHANGED <<runVars, argv, nameVars, fileVars>>

\* An exception no one catches ends the process with status 1.
CliUncaught ==
    /\ cli.pc = "awaiting"
    /\ pc = "crashed"
    /\ CliExit("1", <<ErrorLine(<<"Uncaught Error: spawn minisign ENOENT">>)>>)
    /\ UNCHANGED <<runVars, argv, nameVars, fileVars>>

---------------------------------------------------------------------------
Next ==
    \/ Validate
    \/ ResolveNotes
    \/ \E r \in ReadResults : NotesRead(r)
    \/ StartInspections
    \/ \E i \in DOMAIN inspect, what \in {"sha512", "size"}, ok \in BOOLEAN :
          InspectSettles(i, what, ok)
    \/ Build
    \/ \E ok \in BOOLEAN : MkdirSettles(ok)
    \/ \E ok \in BOOLEAN : WriteSettles(ok)
    \/ SignSpawn
    \/ SignStdinWrite
    \/ SignStdinEnd
    \/ SignListen
    \/ \E j \in DOMAIN children, code \in ExitCodes :
          \E diag \in Diagnostics(code) : SignerClose(j, code, diag)
    \/ \E j \in DOMAIN children : SignerSpawnError(j)
    \/ SignFileReturn
    \/ CliParse
    \/ \E helpExit \in HelpExitCodes : CliAction(helpExit)
    \/ CliResolved
    \/ CliRejected
    \/ CliUncaught

Spec == Init /\ [][Next]_vars

\* The runs in which whatever can happen next eventually does: the program's
\* own steps run, every pending file operation settles and every signer
\* that was spawned closes.
FairSpec == Spec /\ WF_vars(Next)

---------------------------------------------------------------------------
\* The two file-name heuristics, called on names of their own.

\* Most pieces a name is made of.
MaxPieces == 3

\* Pieces of names with architecture tokens, and of names with versions.
ArchPieces ==
    {<<"a", "p", "p">>, <<"-">>, <<".", "d", "m", "g">>,
     <<"a", "r", "m", "6", "4">>, <<"A", "A", "r", "c", "h", "6", "4">>,
     <<"x", "6", "4">>, <<"x", "8", "6">>, <<"_", "6", "4">>,
     <<"A", "M", "D", "6", "4">>, <<"i", "a", "3", "2">>,
     <<"I", "3", "8", "6">>, <<"U", "n", "i", "v", "e", "r", "s", "a", "l">>}

VersionPieces ==
    {<<"a", "p", "p">>, <<"-">>, <<".">>, <<"v">>, <<"1">>, <<"2", "0">>,
     <<"1", ".", "2", ".", "3">>, <<"-", "b", "e", "t", "a">>,
     <<".", "z", "i", "p">>}

RECURSIVE Concat(_)
Concat(pieces) ==
    IF pieces = <<>> THEN <<>> ELSE Head(pieces) \o Concat(Tail(pieces))

NamesOf(pieces) ==
    {Concat(ps) : ps \in UNION {[1..n -> pieces] : n \in 0..MaxPieces}}

NoRun ==
    /\ argv = None
    /\ cli = NotCli
    /\ options = CliOptions([files |-> <<>>, secretKey |-> None])
    /\ hasTerminal = TRUE
    /\ RunStart

NameInit ==
    /\ filename \in NamesOf(ArchPieces) \cup NamesOf(VersionPieces)
    /\ archResult = None
    /\ versionResult = None
    /\ versionReturn = "none"
    /\ NoRun
    /\ NoFileRead

CallExtractArch ==
    /\ archResult = None
    /\ archResult' = Some(extractArchFromFilename(filename))
    /\ UNCHANGED <<runVars, cliVars, fileVars, filename, versionResult,
                   versionReturn>>

CallExtractVersion ==
    /\ versionResult = None
    /\ versionResult' = Some(extractVersionFromFilename(filename))
    /\ versionReturn' = ReturnTaken(filename)
    /\ UNCHANGED <<runVars, cliVars, fileVars, filename, archResult>>

NameNext == CallExtractArch \/ CallExtractVersion

NameSpec == NameInit /\ [][NameNext]_vars

---------------------------------------------------------------------------
\* The inspection of one file (file-utils.ts 9-42), made twice.

\* Longest file, in bytes.
MaxBytes == 2

Bytes == {"a", "b"}

Contents == UNION {[1..n -> Bytes] : n \in 0..MaxBytes}

\* crypto.createHash("sha512"): the state of a hash is what it was fed;
\* hash.update(chunk) feeds it; hash.digest("base64") is the encoded digest
\* of what it was fed.
HashUpdateKeepingLastChunk(h, chunk) == chunk

HashUpdate(h, chunk) == h \o chunk

Digest(h) == <<"base64(sha512(">> \o h \o <<"))">>

\* A getFileInfo call: the read stream and the hash of calculateSha512 with
\* its promise, and the stat of getFileSize with its promise.
ReaderStart ==
    [stream |-> "open", pos |-> 0, chunks |-> 0, hash |-> <<>>,
     sha512 |-> "pending", digest |-> None,
     stat |-> "pending", size |-> None]

FileInit ==
    /\ content \in Contents
    /\ readers = <<ReaderStart, ReaderStart>>
    /\ NoRun
    /\ NoNameCall

\* stream.on("data", chunk => hash.update(chunk)): the next n bytes.
StreamData(r, n) ==
    /\ readers[r].stream = "open"
    /\ readers[r].pos + n <= Len(content)
    /\ readers' = [readers EXCEPT
         ![r].hash = HashUpdate(@, SubSeq(content, readers[r].pos + 1,
                                          readers[r].pos + n)),
         ![r].pos = @ + n,
         ![r].chunks = @ + 1]
    /\ UNCHANGED <<runVars, cliVars, nameVars, content>>

\* stream.on("end", ...): every byte has been delivered; the promise
\* resolves with the digest.
StreamEnd(r) ==
    /\ readers[r].stream = "open"
    /\ readers[r].pos = Len(content)
    /\ readers' = [readers EXCEPT
         ![r].stream = "ended",
         ![r].sha512 = IF @ = "pending" THEN "resolved" ELSE @,
         ![r].digest = IF readers[r].sha512 = "pending"
                       THEN Some(Digest(readers[r].hash)) ELSE @]
    /\ UNCHANGED <<runVars, cliVars, nameVars, content>>

\* stream.on("error", reject): the file is missing or cannot be read, or,
\* after the end, cannot be closed.  reject is the promise's: calling it on
\* a settled promise changes nothing.
StreamErrorOverwriting(r) ==
    /\ readers[r].stream \in {"open", "ended"}
    /\ readers' = [readers EXCEPT
         ![r].stream = "errored",
         ![r].sha512 = "rejected"]
    /\ UNCHANGED <<runVars, cliVars, nameVars, content>>

StreamError(r) ==
    /\ readers[r].stream \in {"open", "ended"}
    /\ readers' = [readers EXCEPT
         ![r].stream = "errored",
         ![r].sha512 = IF @ = "pending" THEN "rejected" ELSE @]
    /\ UNCHANGED <<runVars, cliVars, nameVars, content>>

\* stat(filePath) settles: stats.size is the length of the file.
StatSettles(r, ok) ==
    /\ readers[r].stat = "pending"
    /\ readers' = [readers EXCEPT
         ![r].stat = IF ok THEN "ok" ELSE "err",
         ![r].size = IF ok THEN Some(Len(content)) ELSE @]
    /\ UNCHANGED <<runVars, cliVars, nameVars, content>>

\* getFileInfo: Promise.all of the two (file-utils.ts 37-41).
GetFileInfo(rd) ==
    IF rd.sha512 = "rejected" \/ rd.stat = "err" THEN [state |-> "rejected"]
    ELSE IF rd.sha512 = "resolved" /\ rd.stat = "ok"
    THEN [state |-> "resolved", sha512 |-> rd.digest[1], size |-> rd.size[1]]
    ELSE [state |-> "pending"]

FileNext ==
    \/ \E r \in DOMAIN readers, n \in 1..MaxBytes : StreamData(r, n)
    \/ \E r \in DOMAIN readers : StreamEnd(r)
    \/ \E r \in DOMAIN readers : StreamError(r)
    \/ \E r \in DOMAIN readers, ok \in BOOLEAN : StatSettles(r, ok)

FileSpec == FileInit /\ [][FileNext]_vars

---------------------------------------------------------------------------
\* Properties of the signing sequence.

\* The file the k-th signer invocation is expected to sign: the manifest
\* first, then the artifacts in input order.
ExpectedTarget(k) ==
    IF k = 1 THEN ManifestFile(options) ELSE options.distributables[k - 1]

Running(child) == child.code = "running"

SpawnCount == Cardinality({k \in DOMAIN trace : trace[k].op = "spawn"})

\* Nothing was read, hashed, stat'ed, created, written or spawned.
NoIO ==
    /\ trace = <<>>
    /\ children = <<>>
    /\ madeDirs = {}
    /\ written = <<>>
    /\ \A i \in DOMAIN inspect :
          inspect[i].sha512 = "idle" /\ inspect[i].size = "idle"
    /\ notes = None
    /\ manifest = None

\* C1: the k-th signer spawned signs the written manifest file when k = 1
\* and artifact k-1 otherwise, and when it is spawned every signer spawned
\* before it has closed with exit code 0.
C1_SignOrder ==
    \A k \in DOMAIN children :
        /\ k <= NumFiles + 1
        /\ children[k].target = ExpectedTarget(k)
        /\ k = 1 => written # <<>> /\ Last(written).path = children[k].target
        /\ \A i \in 1..(k - 1) : children[i].code = "0"

C1_Witness ==
    /\ NumFiles = 2
    /\ options.distributables[1] # options.distributables[2]
    /\ Len(children) = 3
    /\ children[3].code = "0"

\* C2: at most one signer subprocess is spawned and not yet closed.
C2_OneSignerActive ==
    Cardinality({k \in DOMAIN children : Running(children[k])}) <= 1

C2_Witness ==
    /\ Len(children) = 3
    /\ Running(children[3])
    /\ children[3].promise = "pending"
    /\ children[3].mode = "explicit"

\* C3: once a signer has closed with a non-zero exit code it is the last
\* signer of the run: no spawn is pending, the run cannot complete, and it
\* either has rejected with the signing error or rejects on its next step.
C3_FailFastState ==
    \A k \in DOMAIN children :
        children[k].code = "1" =>
            /\ k = Len(children)
            /\ ~AtStep("spawn")
            /\ \/ pc = "failed" /\ error = ErrSign(children[k].reason)
               \/ pc = "signing" /\ children[k].promise = "rejected"

C3_RejectsNext ==
    (pc = "signing" /\ children # <<>> /\ Last(children).code = "1")
        => (pc' = "failed" /\ children' = children)

C3_FailFast == []C3_FailFastState /\ [][C3_RejectsNext]_vars

C3_Witness ==
    /\ NumFiles = 2
    /\ pc = "failed"
    /\ Len(children) = 2
    /\ children[2].code = "1"

\* C4: the message a signing failure rejects with contains the name of the
\* file whose signing failed.
C4_ErrorNamesFile ==
    (pc = "failed" /\ children # <<>> /\ Last(children).code = "1")
        => Basename(Last(children).target) \in Range(error)

\* C5: with an empty artifact list the run rejects with 'No distributable
\* files provided' and performs no I/O before or after.
C5_EmptyListRejected ==
    NumFiles = 0 =>
        /\ pc \in {"init", "failed"}
        /\ pc = "failed" => error = ErrNoFiles
        /\ NoIO

C5_Witness ==
    /\ NumFiles = 0
    /\ pc = "failed"
    /\ Truthy(options.secretKeyPath)
    /\ options.releaseNotes = None
    /\ options.releaseNotesPath # None

\* C6: with a non-empty artifact list and an empty or absent key path the
\* run rejects with 'Secret key path is required' and performs no I/O.
C6_MissingKeyRejected ==
    (NumFiles > 0 /\ ~Truthy(options.secretKeyPath)) =>
        /\ pc \in {"init", "failed"}
        /\ pc = "failed" => error = ErrNoKey
        /\ NoIO

C6_Witness ==
    /\ NumFiles > 0
    /\ options.secretKeyPath = Some("")
    /\ pc = "failed"
    /\ options.releaseNotes = None
    /\ options.releaseNotesPath # None

\* C7: never more than n+1 signers are spawned, and when the run has
\* resolved exactly n+1 were, one per expected target, all closed with 0.
C7_SpawnCount ==
    /\ Len(children) <= NumFiles + 1
    /\ SpawnCount = Len(children)
    /\ (pc = "complete" \/ result # None) =>
          /\ NumFiles >= 1
          /\ Len(children) = NumFiles + 1
          /\ \A k \in DOMAIN children :
                children[k].code = "0" /\ children[k].target = ExpectedTarget(k)

C7_Witness ==
    /\ pc = "complete"
    /\ NumFiles = 2
    /\ result = Some(ManifestFile(options))

\* C8: every signer of a run is invoked in the same credential mode, the
\* explicit one exactly when a non-empty password was supplied, with the
\* same key file, and whatever is written to a signer is that password.
C8_OneCredentialMode ==
    \A k \in DOMAIN children :
        /\ children[k].mode = children[1].mode
        /\ children[k].stdio = children[1].stdio
        /\ children[k].key = options.secretKeyPath[1]
        /\ children[k].mode = "explicit" <=> Truthy(options.password)
        /\ children[k].stdio[1] = "pipe" <=> Truthy(options.password)
        /\ \A w \in DOMAIN children[k].stdin :
              children[k].stdin[w] = <<options.password[1], "\n">>

C8_Witness ==
    /\ Len(children) = 3
    /\ children[3].mode = "explicit"
    /\ children[3].stdin # <<>>
    /\ children[1].stdin = children[3].stdin

\* C9: an explicit-mode signer has a piped stdin and goes through spawn,
\* write, end of stdin, wait for close in that order, each once; what is
\* written is the secret followed by one newline.
C9_ExplicitProtocol ==
    \A k \in DOMAIN children :
        children[k].mode = "explicit" =>
            /\ children[k].stdio[1] = "pipe"
            /\ \/ IsPrefix(children[k].log,
                           <<"spawn", "write", "end", "listen", "close">>)
               \/ children[k].log =
                           <<"spawn", "write", "end", "listen", "error">>
            /\ children[k].stdin =
                  IF Len(children[k].log) >= 2
                  THEN << <<options.password[1], "\n">> >>
                  ELSE <<>>
            /\ children[k].stdinEnded <=> Len(children[k].log) >= 3
            /\ (k < Len(children) \/ pc \in {"complete", "failed"})
                  => Len(children[k].log) = 5

C9_Witness ==
    /\ Len(children) = 2
    /\ children[2].mode = "explicit"
    /\ children[2].log = <<"spawn", "write", "end", "listen", "close">>

\* C10: an interactive-mode signer inherits all three standard streams,
\* nothing is written to its stdin, its stdin is never closed by the
\* orchestrator, and after the spawn the orchestrator only waits for close.
C10_InteractiveProtocol ==
    \A k \in DOMAIN children :
        children[k].mode = "interactive" =>
            /\ children[k].stdio = <<"inherit", "inherit", "inherit">>
            /\ children[k].stdin = <<>>
            /\ ~children[k].stdinEnded
            /\ \/ IsPrefix(children[k].log, <<"spawn", "listen", "close">>)
               \/ children[k].log = <<"spawn", "listen", "error">>

C10_Witness ==
    /\ Len(children) = 2
    /\ children[2].mode = "interactive"
    /\ options.password = None
    /\ children[2].log = <<"spawn", "listen", "close">>

---------------------------------------------------------------------------
\* Outcomes of a signing invocation.

\* The number of signFile calls that logged their success.
SuccessCount ==
    Cardinality({i \in DOMAIN console :
                    console[i].text[1] = "Successfully signed: "})

\* C11: in both modes the promise of a closed signer is resolved exactly
\* when its exit code is 0; a signer closed with a non-zero code or with no
\* code at all is the last one of the run, which has rejected with the
\* signing error or does so on its next step, and never completes.
C11_ExitStatusState ==
    \A k \in DOMAIN children :
        children[k].code \in ExitCodes =>
            /\ children[k].promise = "resolved" <=> children[k].code = "0"
            /\ children[k].promise = "rejected" <=> children[k].code \in {"1", "null"}
            /\ children[k].code # "0" =>
                  /\ k = Len(children)
                  /\ ~AtStep("spawn")
                  /\ SuccessCount = k - 1
                  /\ \/ pc = "failed" /\ error = ErrSign(children[k].reason)
                     \/ pc = "signing"
            /\ (children[k].code = "0" /\ (k < Len(children) \/ pc = "complete"))
                  => SuccessCount >= k

C11_Step ==
    (pc = "signing" /\ children # <<>> /\ Last(children).code \in {"1", "null"})
        => (pc' = "failed" /\ children' = children /\ result' = None)

C11_ExitStatus == []C11_ExitStatusState /\ [][C11_Step]_vars

C11_Witness ==
    /\ pc = "failed"
    /\ Len(children) = 2
    /\ children[2].code = "null"
    /\ children[2].mode = "explicit"
    /\ error = ErrSign(<<"minisign process exited with code ", "null">>)

\* C12: a signer that could not be started settles its invocation as a
\* failure: its promise is rejected and the run rejects; the run never ends
\* by an uncaught exception.
C12_SpawnFailureRejects ==
    /\ pc # "crashed"
    /\ \A k \in DOMAIN children :
          children[k].code = "ENOENT" =>
              children[k].promise = "rejected" /\ pc \in {"signing", "failed"}

\* C13: the message a failed signing rejects with holds the exit status and
\* every diagnostic the signer wrote before it exited non-zero.
C13_DiagnosticsInFailure ==
    (pc = "failed" /\ children # <<>> /\ Last(children).code = "1")
        => /\ "1" \in Range(error)
           /\ Range(Last(children).stderr) \subseteq Range(error)

\* C14: with no secret supplied and no terminal to inherit, no signer is
\* ever spawned.
C14_UnavailableCredentialRejected ==
    (~hasTerminal /\ ~Truthy(options.password)) => children = <<>>

---------------------------------------------------------------------------
\* The order of the stages.

\* The position of createReleaseMetadata in its linear flow.
FlowRank(p) ==
    CASE p = "init" -> 0
      [] p = "notes" -> 1
      [] p = "readingNotes" -> 2
      [] p = "inspect" -> 3
      [] p = "inspecting" -> 4
      [] p = "inspected" -> 5
      [] p = "mkdir" -> 6
      [] p = "writing" -> 7
      [] p = "signing" -> 8
      [] p = "complete" -> 9

\* The stage an external call belongs to.
OpRank(op) ==
    CASE op = "readFile" -> 1
      [] op \in {"createReadStream", "stat"} -> 2
      [] op = "mkdir" -> 3
      [] op = "writeFile" -> 4
      [] op = "spawn" -> 5

Ended == pc \in {"complete", "failed", "crashed"}

Issued(op) == \E t \in DOMAIN trace : trace[t].op = op

EveryInspectionOk ==
    \A i \in DOMAIN inspect : inspect[i].sha512 = "ok" /\ inspect[i].size = "ok"

\* The effects of a run on the world and its outcome.
Effects == <<trace, madeDirs, written, children, manifest, result, error>>

\* A stage's calls are issued only when every earlier stage has completed
\* successfully, and in stage order.
C15_StageOrderState ==
    /\ \A a, b \in DOMAIN trace :
          a < b => OpRank(trace[a].op) <= OpRank(trace[b].op)
    /\ pc = "init" => trace = <<>>
    /\ Issued("createReadStream") =>
          /\ ValidationError(options) = NoError
          /\ Issued("readFile") => notes # None
    /\ manifest # None => EveryInspectionOk
    /\ Issued("mkdir") => manifest # None
    /\ Issued("writeFile") => OutputDir(options) \in madeDirs
    /\ Issued("spawn") => written # <<>>
    /\ \A k \in DOMAIN children : k > 1 => children[1].code = "0"
    /\ pc = "complete" =>
          /\ result = Some(ManifestFile(options))
          /\ Len(children) = NumFiles + 1
          /\ \A k \in DOMAIN children : children[k].code = "0"
    /\ result # None => pc = "complete"

\* A step keeps the position, moves it one place forward (two when no notes
\* file is read), or ends the run; the signing loop only moves forward; an
\* ended run stays ended and has no further effect.
C15_StageOrderStep ==
    /\ ~Ended /\ ~Ended' =>
          /\ FlowRank(pc') \in
                {FlowRank(pc), FlowRank(pc) + 1} \cup
                (IF pc = "notes" THEN {FlowRank("inspect")} ELSE {})
          /\ signIdx' \in {signIdx, signIdx + 1}
    /\ pc' = "complete" => pc \in {"signing", "complete"}
    /\ Ended => pc' = pc /\ Effects' = Effects

\* C15: the stages occur in the fixed linear order, none starts before the
\* one before it has completed successfully, none is re-entered, and an
\* ended run stays ended.
C15_StageOrder == []C15_StageOrderState /\ [][C15_StageOrderStep]_vars

C15_Witness ==
    /\ pc = "complete"
    /\ NumFiles = 2
    /\ Issued("readFile")
    /\ Len(trace) = 10

\* C16 (state): what has happened when the run has failed before signing,
\* by the stage that failed; and no stage has acted unless the one before
\* it succeeded.
C16_AbortState ==
    /\ children # <<>> => written # <<>>
    /\ written # <<>> => madeDirs # {}
    /\ madeDirs # {} => EveryInspectionOk
    /\ error # NoError => pc = "failed"
    /\ (pc = "failed" /\ children = <<>> /\ trace # <<>>) =>
          /\ Last(trace).op \in {"readFile", "stat", "mkdir", "writeFile"}
          /\ written = <<>>
          /\ result = None
          /\ Last(trace).op = "readFile" =>
                /\ error = ErrReadNotes(options.releaseNotesPath[1])
                /\ Len(trace) = 1
                /\ \A i \in DOMAIN inspect :
                      inspect[i].sha512 = "idle" /\ inspect[i].size = "idle"
                /\ madeDirs = {} /\ manifest = None
          /\ Last(trace).op = "stat" =>
                /\ \E i \in DOMAIN inspect :
                      \/ /\ inspect[i].sha512 = "err"
                         /\ error = FsError("open", options.distributables[i])
                      \/ /\ inspect[i].size = "err"
                         /\ error = FsError("stat", options.distributables[i])
                /\ madeDirs = {} /\ manifest = None
          /\ Last(trace).op = "mkdir" =>
                /\ error = FsError("mkdir", OutputDir(options))
                /\ madeDirs = {}
          /\ Last(trace).op = "writeFile" =>
                error = FsError("open", ManifestFile(options))

\* C16 (step): the step that fails an inspection rejects with the error of
\* the operation that failed in it, no other having failed before; after a
\* rejection nothing more is done and the error stays.
C16_AbortStep ==
    /\ (pc = "inspecting" /\ pc' = "failed") =>
          /\ \A i \in DOMAIN inspect :
                inspect[i].sha512 # "err" /\ inspect[i].size # "err"
          /\ \E i \in DOMAIN inspect :
                \/ /\ inspect'[i].sha512 = "err"
                   /\ error' = FsError("open", options.distributables[i])
                \/ /\ inspect'[i].size = "err"
                   /\ error' = FsError("stat", options.distributables[i])
    /\ pc = "failed" => pc' = "failed" /\ Effects' = Effects

\* C16: a failure of the notes read, of an inspection, of the directory
\* creation or of the manifest write ends the run with that error, and no
\* action of a later stage is performed.
C16_FailureAborts == []C16_AbortState /\ [][C16_AbortStep]_vars

C16_Witness ==
    /\ pc = "failed"
    /\ NumFiles = 2
    /\ inspect[1].sha512 = "err"
    /\ inspect[2].sha512 = "ok"
    /\ inspect[2].size = "ok"
    /\ error = FsError("open", options.distributables[1])
    /\ madeDirs = {}

\* The only calls the run makes: reads of its inputs, one mkdir, one write,
\* spawns of the signer.  None removes or truncates a file.
OnlyCreatingCalls ==
    \A t \in DOMAIN trace :
        trace[t].op \in {"readFile", "createReadStream", "stat", "mkdir",
                         "writeFile", "spawn"}

C17_KeptState ==
    /\ OnlyCreatingCalls
    /\ children # <<>> =>
          /\ written = <<[path |-> ManifestFile(options), content |-> manifest[1]]>>
          /\ OutputDir(options) \in madeDirs

C17_KeptStep == IsPrefix(written, written') /\ madeDirs \subseteq madeDirs'

\* C17: the written manifest and the created directory stay as they are
\* through every later step, a failed signing included.
C17_NoRollback == []C17_KeptState /\ [][C17_KeptStep]_vars

C17_Witness ==
    /\ pc = "failed"
    /\ Len(children) = 2
    /\ children[2].code = "1"
    /\ written # <<>>
    /\ OutputDir(options) \in madeDirs

---------------------------------------------------------------------------
\* The content of the manifest.

\* Every manifest of the run: the object in memory and what was written.
Manifests ==
    {manifest[i] : i \in DOMAIN manifest}
        \cup {written[i].content : i \in DOMAIN written}

\* Entry e describes the artifact at path p.
Describes(e, p) ==
    e.sha512 = FileInfo(p).sha512 /\ e.size = FileInfo(p).size

\* C18: at index i Promise.all holds nothing or the digest and size of
\* artifact i, in whatever order the inspections complete, and the files
\* list of the manifest has one entry per artifact, entry i describing
\* artifact i.
C18_FilesInInputOrder ==
    /\ \A i \in DOMAIN resolved :
          resolved[i] # None => Describes(resolved[i][1], options.distributables[i])
    /\ \A m \in Manifests :
          /\ Len(m.files) = NumFiles
          /\ \A i \in DOMAIN m.files :
                Describes(m.files[i], options.distributables[i])

\* The second artifact has been inspected while the first, a different
\* file, has not.
C18_Witness ==
    /\ NumFiles = 2
    /\ options.distributables[1] # options.distributables[2]
    /\ resolved[1] = None
    /\ resolved[2] # None
    /\ inspect[1].sha512 = "pending"

\* C19: under autoUpdaterCompat the manifest's top-level path is the base
\* name of the first artifact and its top-level sha512 and size are those of
\* the first entry of its files list, which are those of the first artifact;
\* a manifest exists only when every inspection has succeeded.
C19_CompatMirrorsFirst ==
    /\ manifest # None => EveryInspectionOk
    /\ options.autoUpdaterCompat = Some(TRUE) =>
          \A m \in Manifests :
              /\ m.path = Some(Basename(options.distributables[1]))
              /\ m.sha512 = Some(m.files[1].sha512)
              /\ m.size = Some(m.files[1].size)
              /\ m.sha512 = Some(FileInfo(options.distributables[1]).sha512)
              /\ m.size = Some(FileInfo(options.distributables[1]).size)

C19_Witness ==
    /\ options.autoUpdaterCompat = Some(TRUE)
    /\ NumFiles = 2
    /\ written # <<>>
    /\ written[1].content.sha512 # Some(written[1].content.files[2].sha512)
    /\ written[1].content.path = Some("MyApp-1.2.3-arm64.zip")

\* C20: with autoUpdaterCompat false or omitted the manifest has no
\* top-level path, sha512 or size.
C20_NoCompatFields ==
    options.autoUpdaterCompat \in {None, Some(FALSE)} =>
        \A m \in Manifests :
            m.path = None /\ m.sha512 = None /\ m.size = None

C20_Witness ==
    /\ options.autoUpdaterCompat = Some(FALSE)
    /\ written # <<>>
    /\ written[1].content.path = None
    /\ written[1].content.files # <<>>

---------------------------------------------------------------------------
\* The manifest file and the value of the run.

\* latest-<platform>.yml inside the output directory, from the options alone.
C21_Path ==
    (IF options.outputDir \in {None, Some(<<".">>)} THEN <<>>
     ELSE options.outputDir[1])
    \o << IF options.platform = None THEN "latest-mac.yml"
          ELSE IF options.platform = Some("win") THEN "latest-win.yml"
          ELSE IF options.platform = Some("linux") THEN "latest-linux.yml"
          ELSE "latest-mac.yml" >>

OpCount(op) == Cardinality({t \in DOMAIN trace : trace[t].op = op})

\* C21: the path the run resolves with is latest-<platform>.yml inside the
\* output directory ('.' and 'mac' by default); the manifest is written to
\* that path and the first signer is given that path; and the write is
\* issued after the directory has been ensured.
C21_ReturnsManifestPath ==
    /\ result # None =>
          /\ pc = "complete"
          /\ result = Some(C21_Path)
          /\ written # <<>>
    /\ \A w \in DOMAIN written : written[w].path = C21_Path
    /\ children # <<>> => children[1].target = C21_Path
    /\ \A t \in DOMAIN trace :
          trace[t].op = "writeFile" =>
              /\ trace[t].path = C21_Path
              /\ \E m \in 1..(t - 1) :
                    trace[m] = [op |-> "mkdir", path |-> OutputDir(options)]
              /\ OutputDir(options) \in madeDirs

C21_Witness ==
    /\ pc = "complete"
    /\ options.outputDir = Some(<<"out">>)
    /\ result = Some(<<"out", "latest-win.yml">>)
    /\ written[1].path = <<"out", "latest-win.yml">>
    /\ children[1].target = <<"out", "latest-win.yml">>

\* C22: the manifest is written at most once in a run: at most one
\* fs.writeFile is ever issued and at most one has succeeded, and what is at
\* the manifest path is the manifest object as it was built.
C22_WrittenOnce ==
    /\ OpCount("writeFile") <= 1
    /\ Len(written) <= 1
    /\ \A w \in DOMAIN written :
          /\ written[w].path = ManifestFile(options)
          /\ written[w].content = manifest[1]
    /\ children # <<>> => Len(written) = 1

C22_Witness ==
    /\ pc = "complete"
    /\ NumFiles = 2
    /\ Len(written) = 1
    /\ OpCount("writeFile") = 1
    /\ Len(children) = 3

IsInspectCall(t) == t.op \in {"createReadStream", "stat"}

\* C23: the i-th signer spawned belongs to the i-th signing step, so no
\* step has spawned twice; a signer that failed is the last one spawned;
\* the inspection calls issued are one hash and one stat per position of
\* the artifact list; and the notes file, the directory and the manifest
\* are each attempted at most once.
C23_NoRetries ==
    /\ \A k \in DOMAIN children :
          /\ children[k].idx = k
          /\ children[k].code \in {"1", "null", "ENOENT"} => k = Len(children)
    /\ SpawnCount = Len(children)
    /\ SelectSeq(trace, IsInspectCall)
          \in {<<>>, AllInspectCalls(options.distributables)}
    /\ OpCount("readFile") <= 1
    /\ OpCount("mkdir") <= 1
    /\ OpCount("writeFile") <= 1
    /\ signIdx <= NumFiles + 1

C23_Witness ==
    /\ pc = "failed"
    /\ NumFiles = 2
    /\ options.distributables[1] = options.distributables[2]
    /\ Len(children) = 2
    /\ children[2].code = "null"
    /\ children[2].mode = "interactive"
    /\ OpCount("createReadStream") = 2

---------------------------------------------------------------------------
\* Release notes and version.

\* C24: with an explicit releaseNotes string the notes file is never read;
\* the manifest has a releaseNotes field exactly when the resolved text (the
\* explicit string, else what was read from the notes file) is non-empty,
\* and the field is that text; with neither supplied there is no field.
C24_NotesResolution ==
    /\ options.releaseNotes # None => ~Issued("readFile")
    /\ ~TruthyPath(options.releaseNotesPath) => ~Issued("readFile")
    /\ \A m \in Manifests :
          /\ options.releaseNotes # None =>
                m.releaseNotes = IF options.releaseNotes = Some("") THEN None
                                 ELSE options.releaseNotes
          /\ (options.releaseNotes = None /\ options.releaseNotesPath = None)
                => m.releaseNotes = None
          /\ (options.releaseNotes = None /\ options.releaseNotesPath # None)
                => /\ Issued("readFile")
                   /\ m.releaseNotes = IF notes = Some("") THEN None ELSE notes
          /\ m.releaseNotes # Some("")

C24_Witness ==
    /\ options.releaseNotes = Some("")
    /\ options.releaseNotesPath # None
    /\ written # <<>>
    /\ written[1].content.releaseNotes = None
    /\ ~Issued("readFile")

\* C25: the manifest's version is the explicit appVersion when there is
\* one; otherwise what extractVersionFromFilename finds in the base name of
\* the first artifact; otherwise 1.0.0.  No other artifact is looked at.
C25_VersionPrecedence ==
    \A m \in Manifests :
        m.version =
            IF options.appVersion # None THEN options.appVersion[1]
            ELSE IF extractVersionFromFilename(
                        Chars(Basename(options.distributables[1]))) # None
            THEN extractVersionFromFilename(
                        Chars(Basename(options.distributables[1])))[1]
            ELSE <<"1", ".", "0", ".", "0">>

\* A run whose first artifact has no version in its name, and whose second
\* has one, completes with the fallback version.
C25_Witness ==
    /\ pc = "complete"
    /\ NumFiles = 2
    /\ options.appVersion = None
    /\ Basename(options.distributables[1]) = "app-x64.dmg"
    /\ Basename(options.distributables[2]) = "MyApp-1.2.3-arm64.zip"
    /\ written[1].content.version = <<"1", ".", "0", ".", "0">>

\* C26: with no explicit appVersion and MyApp-1.2.3-arm64.zip as the first
\* artifact the manifest's version is 1.2.3.
C26_ReadmeVersion ==
    (/\ options.appVersion = None
     /\ NumFiles > 0
     /\ Basename(options.distributables[1]) = "MyApp-1.2.3-arm64.zip")
        => \A m \in Manifests : m.version = <<"1", ".", "2", ".", "3">>

---------------------------------------------------------------------------
\* The file-name heuristics (checked under NameSpec).

X86_64 == <<"x", "8", "6", "_", "6", "4">>

\* C27: the tag returned is arm64 exactly when the name holds arm64 or
\* aarch64 in any case and at any place; x64 exactly when it holds none of
\* those but x64, x86_64 or amd64; ia32 exactly when it holds none of those
\* but x86, ia32 or i386; universal exactly when it holds none of those but
\* universal; absent exactly when it holds none.  A name with x86_64 is
\* never tagged ia32.
C27_ArchPrecedence ==
    archResult # None =>
        LET r == archResult[1]
            arm == Matches(filename, ArmTokens)
            x64 == Matches(filename, X64Tokens)
            x86 == Matches(filename, X86Tokens)
            uni == Matches(filename, UniversalTokens)
        IN  /\ r = Some("arm64") <=> arm
            /\ r = Some("x64") <=> (~arm /\ x64)
            /\ r = Some("ia32") <=> (~arm /\ ~x64 /\ x86)
            /\ r = Some("universal") <=> (~arm /\ ~x64 /\ ~x86 /\ uni)
            /\ r = None <=> (~arm /\ ~x64 /\ ~x86 /\ ~uni)
            /\ Matches(filename, {X86_64}) => r \in {Some("arm64"), Some("x64")}

\* universal, then x86_64: tagged x64.
C27_Witness ==
    /\ archResult = Some(Some("x64"))
    /\ filename = <<"U", "n", "i", "v", "e", "r", "s", "a", "l">> \o X86_64

\* s[i..j] is a run of digits.
AllDigits(s, i, j) == i <= j /\ \A k \in i..j : s[k] \in Digits

\* <digits>.<digits>.<digit> starts at index i of s, its dots at a and b.
SemverAt(s, i, a, b) ==
    /\ i < a /\ a + 1 < b /\ b < Len(s)
    /\ s[a] = "." /\ s[b] = "."
    /\ AllDigits(s, i, a - 1)
    /\ AllDigits(s, a + 1, b - 1)
    /\ s[b + 1] \in Digits

StartsSemver(s, i) == \E a, b \in DOMAIN s : SemverAt(s, i, a, b)

\* The name without its extension: without its last dot and what follows,
\* when something follows.
C28_Stem ==
    IF \E d \in 1..(Len(filename) - 1) :
          filename[d] = "." /\ \A k \in (d + 1)..Len(filename) : filename[k] # "."
    THEN SubSeq(filename, 1,
                (CHOOSE d \in 1..(Len(filename) - 1) :
                    filename[d] = "."
                    /\ \A k \in (d + 1)..Len(filename) : filename[k] # ".") - 1)
    ELSE filename

\* r is s from index i on: <major>.<minor>.<patch> with all the digits of
\* the patch, then, when a "-" and a character of [a-zA-Z0-9.] follow, the
\* "-" and all the characters of that class that follow; nothing more.
IsVersionAt(s, i, r) ==
    /\ Len(r) <= Len(s) - i + 1
    /\ r = SubSeq(s, i, i + Len(r) - 1)
    /\ \E a, b \in DOMAIN r, e \in DOMAIN r :
          /\ SemverAt(r, 1, a, b)
          /\ AllDigits(r, b + 1, e)
          /\ \/ /\ e = Len(r)
                /\ i + e <= Len(s) => s[i + e] \notin Digits
                /\ ~(/\ i + e + 1 <= Len(s)
                     /\ s[i + e] = "-"
                     /\ s[i + e + 1] \in PrereleaseChars)
             \/ /\ e + 2 <= Len(r)
                /\ r[e + 1] = "-"
                /\ \A k \in (e + 2)..Len(r) : r[k] \in PrereleaseChars
                /\ i + Len(r) <= Len(s) => s[i + Len(r)] \notin PrereleaseChars

\* C28: with the extension removed, a name that holds no
\* <major>.<minor>.<patch> yields no version; otherwise the result is the
\* first such occurrence, starting at its first digit (never a "v"), with
\* its "-<prerelease>" suffix of alphanumerics and dots when one follows.
C28_VersionExtraction ==
    versionResult # None =>
        \A stem \in {C28_Stem} :
            \A starts \in {{i \in DOMAIN stem : StartsSemver(stem, i)}} :
                LET r == versionResult[1]
                IN  IF starts = {} THEN r = None
                    ELSE /\ r # None
                         /\ r[1][1] \in Digits
                         /\ IsVersionAt(stem, Min(starts), r[1])

\* 1.2.3-beta.zip
C28_Witness ==
    /\ filename = <<"1", ".", "2", ".", "3", "-", "b", "e", "t", "a",
                    ".", "z", "i", "p">>
    /\ versionResult = Some(Some(<<"1", ".", "2", ".", "3", "-", "b", "e", "t", "a">>))

---------------------------------------------------------------------------
\* The password on the command line.

\* C29: when the tool has run with --password, files, a key and minisign
\* installed, signers were invoked, each in the explicit mode with that
\* password on its standard input; and in a run of the tool a signer is in
\* the interactive mode only without --password.
C29_CliPasswordReachesSigner ==
    argv # None =>
        /\ (/\ argv[1].password # None
            /\ Len(argv[1].files) > 0
            /\ Truthy(argv[1].secretKey)
            /\ ~argv[1].installMinisign
            /\ cli.minisign
            /\ cli.pc = "exited")
              => /\ children # <<>>
                 /\ \A k \in DOMAIN children :
                       /\ children[k].mode = "explicit"
                       /\ children[k].stdin = << <<argv[1].password[1], "\n">> >>
        /\ \A k \in DOMAIN children :
              children[k].mode = "interactive" => argv[1].password = None

---------------------------------------------------------------------------
\* The inspection of a file (checked under FileSpec).

\* C30: a getFileInfo call that resolves gives the digest of the bytes of
\* the file, however the stream cut them into chunks, and their number, so
\* two calls on the same content give the same; on an empty file a stream
\* that ends and a stat that succeeds give the digest of no bytes and 0.
C30_InspectionDeterministic ==
    /\ \A r \in DOMAIN readers :
          GetFileInfo(readers[r]).state = "resolved" =>
              /\ GetFileInfo(readers[r]).sha512 = <<"base64(sha512(">> \o content \o <<"))">>
              /\ GetFileInfo(readers[r]).size = Len(content)
    /\ \A r1, r2 \in DOMAIN readers :
          (/\ GetFileInfo(readers[r1]).state = "resolved"
           /\ GetFileInfo(readers[r2]).state = "resolved")
              => GetFileInfo(readers[r1]) = GetFileInfo(readers[r2])
    /\ content = <<>> =>
          \A r \in DOMAIN readers :
              (readers[r].stream = "ended" /\ readers[r].stat = "ok") =>
                  GetFileInfo(readers[r]) =
                      [state |-> "resolved",
                       sha512 |-> <<"base64(sha512(", "))">>,
                       size |-> 0]

\* Two calls have resolved on a file of two bytes, one that read it in two
\* chunks and one that read it in one.
C30_Witness ==
    /\ content = <<"a", "b">>
    /\ readers[1].chunks = 2
    /\ readers[2].chunks = 1
    /\ GetFileInfo(readers[1]).state = "resolved"
    /\ GetFileInfo(readers[2]).state = "resolved"

---------------------------------------------------------------------------
\* The url and the arch of a file entry.

\* Every file entry of the run, with the index of its artifact: the values
\* Promise.all holds and the entries of every manifest.
EntriesAt(i) ==
    {resolved[i][k] : k \in DOMAIN resolved[i]}
        \cup {m.files[i] : m \in {x \in Manifests : i \in DOMAIN x.files}}

\* C31: the url of the entry of artifact i is the base URL, "/" and the last
\* segment of the artifact's path when a non-empty base URL was supplied,
\* and that last segment alone otherwise; no directory of the path is part
\* of it.
C31_UrlFromBaseName ==
    \A i \in DOMAIN options.distributables :
        \A e \in EntriesAt(i) :
            LET p == options.distributables[i]
            IN  /\ IF options.baseUrl # None /\ options.baseUrl[1] # <<>>
                   THEN e.url = options.baseUrl[1] \o <<"/", Last(p)>>
                   ELSE e.url = <<Last(p)>>
                /\ \A j \in 1..(Len(p) - 1), k \in DOMAIN e.url : e.url[k] # p[j]

\* A manifest was written for an artifact in a directory, under a base URL.
C31_Witness ==
    /\ written # <<>>
    /\ options.baseUrl = Some(<<"https://cdn.example.com/releases">>)
    /\ options.distributables[1] = <<"dist", "MyApp-1.2.3-arm64.zip">>
    /\ written[1].content.files[1].url =
          <<"https://cdn.example.com/releases", "/", "MyApp-1.2.3-arm64.zip">>

\* The tags whose tokens the name holds.
Detected(name) ==
    (IF Matches(name, ArmTokens) THEN {"arm64"} ELSE {})
    \cup (IF Matches(name, X64Tokens) THEN {"x64"} ELSE {})
    \cup (IF Matches(name, X86Tokens) THEN {"ia32"} ELSE {})
    \cup (IF Matches(name, UniversalTokens) THEN {"universal"} ELSE {})

\* C32: the entry of artifact i has an arch exactly when the last segment
\* of the artifact's path holds a token of one of the four tags, and then
\* the arch is one of the tags detected; and the entry of an artifact exists
\* as soon as its hash and its size are known, with or without a tag.
C32_ArchIffDetected ==
    \A i \in DOMAIN options.distributables :
        LET name == Chars(Last(options.distributables[i]))
        IN  /\ \A e \in EntriesAt(i) :
                  /\ e.arch = None <=> Detected(name) = {}
                  /\ e.arch # None =>
                        /\ e.arch[1] \in Detected(name)
                        /\ e.arch[1] \in {"arm64", "x64", "ia32", "universal"}
            /\ (inspect[i].sha512 = "ok" /\ inspect[i].size = "ok")
                  => resolved[i] # None

\* A run has completed whose first artifact has no detectable architecture
\* and whose second has one.
C32_Witness ==
    /\ pc = "complete"
    /\ options.distributables = <<PlainArtifact, <<"app-x64.dmg">>>>
    /\ written[1].content.files[1].arch = None
    /\ written[1].content.files[2].arch = Some("x64")

---------------------------------------------------------------------------
\* The settlement of calculateSha512 and getFileInfo (checked under
\* FileSpec).

C33_SettledState ==
    \A r \in DOMAIN readers :
        LET rd == readers[r]
        IN  /\ rd.sha512 = "pending" <=> rd.stream = "open"
            /\ rd.sha512 = "resolved" =>
                  /\ rd.pos = Len(content)
                  /\ rd.digest = Some(<<"base64(sha512(">> \o content \o <<"))">>)
            /\ rd.sha512 = "rejected" => rd.stream = "errored" /\ rd.digest = None
            /\ GetFileInfo(rd).state = "rejected"
                  <=> \/ rd.stream = "errored" /\ rd.digest = None
                      \/ rd.stat = "err"
            /\ GetFileInfo(rd).state = "resolved"
                  => rd.digest # None /\ rd.size # None /\ rd.stat = "ok"

C33_SettledStep ==
    \A r \in DOMAIN readers :
        readers[r].sha512 # "pending" =>
            /\ readers'[r].sha512 = readers[r].sha512
            /\ readers'[r].digest = readers[r].digest

\* C33: the promise of calculateSha512 is pending exactly while the stream
\* has neither ended nor failed; it resolves at the end, with the digest of
\* the bytes of the file in their order, and rejects at an error; once
\* settled it never changes, whatever the stream emits afterwards; and
\* getFileInfo is rejected exactly when the stream failed before its end or
\* stat failed, and resolved only with both a digest and a size.
C33_SettlesOnce == []C33_SettledState /\ [][C33_SettledStep]_vars

\* The stream of a file of two bytes delivered them in two chunks, ended,
\* and then failed: the promise is still resolved.
C33_Witness ==
    /\ content = <<"a", "b">>
    /\ readers[1].chunks = 2
    /\ readers[1].stream = "errored"
    /\ readers[1].sha512 = "resolved"

---------------------------------------------------------------------------
\* Termination (checked under FairSpec).

\* createReleaseMetadata has settled; or the signer could not be started
\* and the uncaught exception ended the run; or the command-line tool has
\* exited without calling createReleaseMetadata.
C34_Over ==
    \/ pc \in {"complete", "failed"}
    \/ pc = "crashed"
    \/ cli.pc = "exited" /\ pc = "init"

\* While signFile awaits a signer that has not closed, a step of the run
\* changes nothing of it, unless it is the failure to start that signer.
C34_BlockedStep ==
    (/\ pc = "signing"
     /\ children # <<>>
     /\ Last(children).promise = "pending")
        => /\ pc' \in {"signing", "crashed"}
           /\ signIdx' = signIdx
           /\ step' = step
           /\ Len(children') = Len(children)
           /\ \A k \in 1..(Len(children) - 1) : children'[k] = children[k]
           /\ <<written, trace, madeDirs, manifest, result, error>>' =
                 <<written, trace, madeDirs, manifest, result, error>>

\* C34: when every step that can be taken eventually is, every run ends:
\* createReleaseMetadata resolves or rejects (or is never called, or the
\* signer cannot be started); and while the signer awaited has not closed
\* the run does not move: no timeout rejects it and nothing else is spawned.
C34_Termination == <>C34_Over /\ [][C34_BlockedStep]_vars

\* signFile awaits the signer of the second artifact, which has not closed.
C34_Witness ==
    /\ pc = "signing"
    /\ signIdx = 3
    /\ Last(children).promise = "pending"
    /\ Last(children).code = "running"

---------------------------------------------------------------------------
\* The order of the two validations.

\* C35: a run with an empty artifact list and an empty or absent key path
\* rejects at its first step, and the message is the one of the artifact
\* list, not the one of the key.
C35_ListCheckedFirst ==
    (NumFiles = 0 /\ ~Truthy(options.secretKeyPath)) =>
        /\ pc \in {"init", "failed"}
        /\ pc = "failed" =>
              /\ error = <<"No distributable files provided">>
              /\ error # <<"Secret key path is required">>

\* A run with no artifact and no key has rejected.
C35_Witness ==
    /\ NumFiles = 0
    /\ options.secretKeyPath = None
    /\ pc = "failed"

---------------------------------------------------------------------------
\* The empty password.

\* C36: in a run whose password is the empty string every signer is spawned
\* with the three streams inherited, and nothing is written to its standard
\* input, which the run does not end either.
C36_EmptyPasswordInteractive ==
    options.password = Some("") =>
        \A k \in DOMAIN children :
            /\ children[k].mode = "interactive"
            /\ children[k].stdio = <<"inherit", "inherit", "inherit">>
            /\ children[k].stdin = <<>>
            /\ ~children[k].stdinEnded
            /\ \A n \in DOMAIN children[k].log :
                  children[k].log[n] \notin {"write", "end"}

\* A run with the empty password has completed, with two signers.
C36_Witness ==
    /\ options.password = Some("")
    /\ pc = "complete"
    /\ Len(children) = 2

---------------------------------------------------------------------------
\* The notes file is read first.

\* No artifact has been touched: no hash and no stat was started, nothing
\* was written and no signer was spawned.
C37_Untouched ==
    /\ \A i \in DOMAIN inspect :
          inspect[i].sha512 = "idle" /\ inspect[i].size = "idle"
    /\ \A k \in DOMAIN trace :
          trace[k].op \notin {"createReadStream", "stat", "mkdir", "writeFile", "spawn"}
    /\ written = <<>>
    /\ madeDirs = {}
    /\ children = <<>>

\* C37: the notes file is read only without an explicit notes string, and
\* its read is the first file operation of the run; while it is pending no
\* artifact has been touched; and when the run has failed with that read as
\* its last operation, the error names the notes path and still no artifact
\* has been touched.
C37_NotesReadFirst ==
    /\ \A k \in DOMAIN trace :
          trace[k].op = "readFile" =>
              /\ k = 1
              /\ options.releaseNotes = None
              /\ trace[k].path = options.releaseNotesPath[1]
    /\ pc = "readingNotes" => C37_Untouched
    /\ (pc = "failed" /\ trace # <<>> /\ Last(trace).op = "readFile") =>
          /\ IsPrefix(<<"Failed to read release notes from ">>
                          \o options.releaseNotesPath[1], error)
          /\ C37_Untouched

\* The read of the notes file has failed in a run with two artifacts.
C37_Witness ==
    /\ NumFiles = 2
    /\ pc = "failed"
    /\ trace = <<[op |-> "readFile", path |-> <<"NOTES.md">>]>>
    /\ error[1] = "Failed to read release notes from "

---------------------------------------------------------------------------
\* The command-line tool: --install-minisign and the missing signer.

\* createReleaseMetadata was not called: the run has not started, nothing
\* was read, written or spawned.
C38_NotCalled ==
    /\ pc = "init"
    /\ trace = <<>>
    /\ written = <<>>
    /\ children = <<>>

\* C38: for a command line of declared options, with --install-minisign the
\* pipeline is never called and the tool, once it has exited, has printed
\* the installation instructions on the standard output and exited with 0,
\* minisign installed or not, files and key given or not; without the flag
\* and without minisign the pipeline is never called either and the tool,
\* once it has exited, has exited with 1 after the message that minisign is
\* required, and with no message about the artifact list or the key.
C38_InstallFlagAndMissingSigner ==
    (argv # None /\ UsedOptions(argv[1]) \subseteq DeclaredOptions) =>
        /\ argv[1].installMinisign =>
              /\ C38_NotCalled
              /\ cli.pc = "exited" =>
                    /\ cli.exit = Some("0")
                    /\ cli.out # <<>>
                    /\ cli.out[1].text = <<"Installation instructions for minisign:">>
                    /\ \A n \in DOMAIN cli.out : cli.out[n].stream = "log"
        /\ (~argv[1].installMinisign /\ ~cli.minisign) =>
              /\ C38_NotCalled
              /\ cli.pc = "exited" =>
                    /\ cli.exit = Some("1")
                    /\ cli.out # <<>>
                    /\ cli.out[1].text =
                          <<"Error: The minisign command is required but not installed or not in your PATH.">>
                    /\ \A n \in DOMAIN cli.out :
                          /\ cli.out[n].stream = "error"
                          /\ cli.out[n].text \notin
                                {<<"Error: No distributable files specified">>,
                                 <<"Error: --secret-key is required">>}

\* The tool has exited with 0 on --install-minisign, given a file and a key,
\* on a machine without minisign.
C38_Witness ==
    /\ argv # None
    /\ argv[1].installMinisign
    /\ argv[1].password = None
    /\ Len(argv[1].files) > 0
    /\ argv[1].secretKey # None
    /\ ~cli.minisign
    /\ cli.exit = Some("0")

---------------------------------------------------------------------------
\* The command-line tool: the outcome of the pipeline.

\* A line of the success report: the message or the heading of the list.
C39_SuccessLine(line) ==
    /\ line.stream = "log"
    /\ line.text # <<>>
    /\ line.text[1] \in {"Successfully created metadata at ",
                         "Created signature files:"}

\* C39: when the tool has exited after createReleaseMetadata rejected, its
\* exit status is 1, its last line is "Error:" and the message of the
\* rejection on the standard error, and it has printed no line of the
\* success report; and a line of the success report is printed only when
\* createReleaseMetadata has resolved, the message with the path it
\* resolved with.
C39_RejectionExitsWithOne ==
    argv # None =>
        /\ (cli.pc = "exited" /\ pc = "failed") =>
              /\ cli.exit = Some("1")
              /\ cli.out # <<>>
              /\ Last(cli.out) = [stream |-> "error",
                                  text |-> <<"Error:", " ">> \o error]
              /\ \A n \in DOMAIN cli.out : ~C39_SuccessLine(cli.out[n])
        /\ \A n \in DOMAIN cli.out :
              C39_SuccessLine(cli.out[n]) =>
                  /\ pc = "complete"
                  /\ result # None
                  /\ cli.exit = Some("0")
                  /\ cli.out[1].text =
                        <<"Successfully created metadata at ">> \o result[1]

\* The tool has exited with 1 after the signer of the manifest failed.
C39_Witness ==
    /\ argv # None
    /\ cli.pc = "exited"
    /\ cli.exit = Some("1")
    /\ pc = "failed"
    /\ Len(children) = 1
    /\ children[1].code = "1"

---------------------------------------------------------------------------
\* The fallback pattern of extractVersionFromFilename (checked under
\* NameSpec).

\* C40: extractVersionFromFilename never returns a match of its second
\* pattern: it returns from the first pattern, with a version, or it returns
\* null.
C40_FallbackNeverMatches ==
    /\ versionReturn # "simple"
    /\ versionReturn = "full" => versionResult # None /\ versionResult[1] # None
    /\ versionReturn = "null" => versionResult = Some(None)

\* The first pattern found nothing in 1.1 and the second was tried.
C40_Witness ==
    /\ filename = <<"1", ".", "1">>
    /\ versionReturn = "null"

====
